---- MODULE Spec2Model ----
(***************************************************************************)
(* Credential-at-rest protection of the Playwright YouTube suite:          *)
(*   - encrypt / decrypt          (src/utils/encryptionHelper.ts)          *)
(*   - readJsonFile               (src/utils/jsonhelper.ts)                *)
(*   - the encryption utility     (scripts/encryptPassword.ts)             *)
(* and the helpers of its end-to-end tests:                                *)
(*   - the video helper           (src/utils/videoHelper.ts)               *)
(*   - YouTubePage.skipAds        (src/pages/YouTubePage.ts)               *)
(*   - the authentication setup   (tests/authSetup/auth.setup.ts)          *)
(*   - the screenshot filenames   (src/utils/ScreenshotUtils.ts)           *)
(*                                                                         *)
(* Cryptography is modelled symbolically (ideal primitives): PBKDF2 and    *)
(* the GCM tag are injective term constructors, AES-CTR is an XOR with a   *)
(* keystream named by (key, iv).  Everything the repository's own code     *)
(* does around the primitives (UTF-8 conversion, buffer layout, slicing    *)
(* at fixed offsets, base64 text conversion, marker detection) is modelled *)
(* concretely, bit by bit.                                                 *)
(*                                                                         *)
(* Data representation                                                     *)
(*   bit     <<"", b>>   a known bit b \in {0,1}                           *)
(*           <<T, 2*i+c>> bit i of the opaque value named T, complemented  *)
(*                       when c = 1                                        *)
(*   byte    a sequence of 8 bits (most significant first)                 *)
(*   Buffer  a sequence of bytes                                           *)
(*   char    <<u, <<>>>>  the UTF-16 code unit u                           *)
(*           <<-1, s>>    the base64 alphabet character whose 6-bit value  *)
(*                        is the sextet s (some bit of s is opaque)        *)
(*   string  a sequence of chars                                           *)
(***************************************************************************)
EXTENDS Integers, Sequences, FiniteSets, TLC

(***************************************************************************)
(* Bounds of the model.                                                    *)
(***************************************************************************)
MaxTextLen == 2
MaxKeyLen == 1
MaxCalls == 2

(***************************************************************************)
(* Program constants (encryptionHelper.ts).                                *)
(***************************************************************************)
ALGORITHM == "aes-256-gcm"
IV_LENGTH == 16
SALT_LENGTH == 64
TAG_LENGTH == 16
ITERATIONS == 100000
KEY_LENGTH == 32
DIGEST == "sha512"

(***************************************************************************)
(* Bits, bytes, buffers.                                                   *)
(***************************************************************************)
Pow2(n) == CASE n = 0 -> 1 [] n = 1 -> 2 [] n = 2 -> 4 [] n = 3 -> 8
             [] n = 4 -> 16 [] n = 5 -> 32 [] n = 6 -> 64 [] n = 7 -> 128

CBit(b) == <<"", b>>

IsKnownBits(bits) == \A j \in DOMAIN bits : bits[j][1] = ""

RECURSIVE BitsValue(_, _)
BitsValue(bits, n) ==
  IF n = 0 THEN 0 ELSE 2 * BitsValue(bits, n - 1) + bits[n][2]

BitsOf(v, width) == [j \in 1..width |-> CBit((v \div Pow2(width - j)) % 2)]

\* a byte whose value is known
ByteOf(n) == <<n>>

IsKnown(byte) == Len(byte) = 1

BufferOf(ints) == [i \in DOMAIN ints |-> ByteOf(ints[i])]

\* the 8 bits of a byte, and the byte of 8 bits
ByteBits(byte) == IF IsKnown(byte) THEN BitsOf(byte[1], 8) ELSE byte

BitsByte(bits) == IF IsKnownBits(bits) THEN ByteOf(BitsValue(bits, 8)) ELSE bits

RECURSIVE RunLength(_, _)
RunLength(q, n) ==
  IF n < Len(q) /\ q[n + 1] = q[1] THEN RunLength(q, n + 1) ELSE n

\* run-length form of a sequence: <<value, count>> pairs
RECURSIVE Rle(_)
Rle(q) ==
  IF q = <<>> THEN <<>>
  ELSE LET run == RunLength(q, 1)
       IN  <<<<q[1], run>>>> \o Rle(SubSeq(q, run + 1, Len(q)))

\* a buffer as it enters the name of an opaque value: a known byte as its
\* number, a byte made of bits of the value named ks as their indices, any
\* other byte as its bits; runs of equal entries are counted
Repr(buf, ks) ==
  Rle([i \in DOMAIN buf |->
        IF IsKnown(buf[i]) THEN <<0, buf[i]>>
        ELSE IF \A j \in 1..8 : buf[i][j][1] = ks THEN <<1, [j \in 1..8 |-> buf[i][j][2]]>>
        ELSE <<2, buf[i]>>])

\* the byte values of a buffer; an opaque byte counts as an ill-formed 0xFF
Values(buf) == [i \in DOMAIN buf |-> IF IsKnown(buf[i]) THEN buf[i][1] ELSE 255]

\* Buffer.subarray(start, end): both ends clamped to the buffer
Subarray(buf, start, end) ==
  LET s == IF start > Len(buf) THEN Len(buf) ELSE start
      e == IF end > Len(buf) THEN Len(buf) ELSE end
  IN  IF e <= s THEN <<>> ELSE SubSeq(buf, s + 1, e)

\* complement of a bit
FlipBit(bit) ==
  IF bit[1] = "" THEN CBit(1 - bit[2])
  ELSE <<bit[1], IF bit[2] % 2 = 0 THEN bit[2] + 1 ELSE bit[2] - 1>>

(***************************************************************************)
(* Strings and UTF-8.                                                      *)
(***************************************************************************)
Str(units) == [i \in DOMAIN units |-> <<units[i], <<>>>>]

Units(s) == [i \in DOMAIN s |-> s[i][1]]

IsHighSurrogate(u) == u >= 55296 /\ u <= 56319
IsLowSurrogate(u) == u >= 56320 /\ u <= 57343

\* String.prototype.isWellFormed: no unpaired surrogate
IsWellFormed(s) ==
  \A i \in DOMAIN s :
    /\ IsHighSurrogate(s[i][1]) => (i < Len(s) /\ IsLowSurrogate(s[i + 1][1]))
    /\ IsLowSurrogate(s[i][1]) => (i > 1 /\ IsHighSurrogate(s[i - 1][1]))

\* Buffer.from(string, 'utf8') / cipher.update(text, 'utf8') on code units
RECURSIVE Utf8Encode(_)
Utf8Encode(u) ==
  IF u = <<>> THEN <<>>
  ELSE LET c == u[1] IN
    IF c < 128 THEN <<c>> \o Utf8Encode(Tail(u))
    ELSE IF c < 2048 THEN
      <<192 + (c \div 64), 128 + (c % 64)>> \o Utf8Encode(Tail(u))
    ELSE IF IsHighSurrogate(c) /\ Len(u) >= 2 /\ IsLowSurrogate(u[2]) THEN
      LET cp == 65536 + (c - 55296) * 1024 + (u[2] - 56320) IN
      <<240 + (cp \div 262144), 128 + ((cp \div 4096) % 64),
        128 + ((cp \div 64) % 64), 128 + (cp % 64)>>
        \o Utf8Encode(SubSeq(u, 3, Len(u)))
    ELSE IF IsHighSurrogate(c) \/ IsLowSurrogate(c) THEN
      <<239, 191, 189>> \o Utf8Encode(Tail(u))
    ELSE
      <<224 + (c \div 4096), 128 + ((c \div 64) % 64), 128 + (c % 64)>>
        \o Utf8Encode(Tail(u))

IsCont(b) == b >= 128 /\ b <= 191

\* number of continuation bytes the lead byte b announces (0: not a lead)
Utf8Need(b) ==
  IF b >= 194 /\ b <= 223 THEN 1
  ELSE IF b >= 224 /\ b <= 239 THEN 2
  ELSE IF b >= 240 /\ b <= 244 THEN 3
  ELSE 0

\* is c acceptable as the k-th continuation byte after lead byte b
Utf8ContOk(b, k, c) ==
  IF k > 1 THEN IsCont(c)
  ELSE CASE b = 224 -> c >= 160 /\ c <= 191
         [] b = 237 -> c >= 128 /\ c <= 159
         [] b = 240 -> c >= 144 /\ c <= 191
         [] b = 244 -> c >= 128 /\ c <= 143
         [] OTHER -> IsCont(c)

\* length of the longest well-formed prefix of continuation bytes after b[1]
Utf8Matched(b) ==
  LET need == Utf8Need(b[1])
      oks == {m \in 0..need :
                /\ m + 1 <= Len(b)
                /\ \A k \in 1..m : Utf8ContOk(b[1], k, b[k + 1])}
  IN  CHOOSE m \in oks : \A n \in oks : n <= m

\* buffer.toString('utf8') on byte values: ill-formed input becomes U+FFFD
RECURSIVE Utf8Decode(_)
Utf8Decode(b) ==
  IF b = <<>> THEN <<>>
  ELSE LET c == b[1]
           need == Utf8Need(c)
           m == Utf8Matched(b)
           rest == SubSeq(b, m + 2, Len(b))
       IN
    IF c < 128 THEN <<c>> \o Utf8Decode(Tail(b))
    ELSE IF need = 0 \/ m < need THEN <<65533>> \o Utf8Decode(rest)
    ELSE IF need = 1 THEN <<(c - 192) * 64 + (b[2] - 128)>> \o Utf8Decode(rest)
    ELSE IF need = 2 THEN
      <<(c - 224) * 4096 + (b[2] - 128) * 64 + (b[3] - 128)>> \o Utf8Decode(rest)
    ELSE
      LET cp == (c - 240) * 262144 + (b[2] - 128) * 4096
                  + (b[3] - 128) * 64 + (b[4] - 128)
      IN  <<55296 + ((cp - 65536) \div 1024), 56320 + ((cp - 65536) % 1024)>>
            \o Utf8Decode(rest)

(***************************************************************************)
(* base64 text conversion (Node's Buffer).                                 *)
(***************************************************************************)
\* the alphabet character of the 6-bit value v
B64Unit(v) ==
  IF v < 26 THEN 65 + v
  ELSE IF v < 52 THEN 97 + (v - 26)
  ELSE IF v < 62 THEN 48 + (v - 52)
  ELSE IF v = 62 THEN 43 ELSE 47

\* the 6-bit value of code unit u, -1 when u is not in the alphabet
\* (the decoder also accepts the URL-safe '-' and '_')
B64Value(u) ==
  IF u >= 65 /\ u <= 90 THEN u - 65
  ELSE IF u >= 97 /\ u <= 122 THEN u - 97 + 26
  ELSE IF u >= 48 /\ u <= 57 THEN u - 48 + 52
  ELSE IF u = 43 \/ u = 45 THEN 62
  ELSE IF u = 47 \/ u = 95 THEN 63
  ELSE -1

PadChar == <<61, <<>>>>

\* a character of the alphabet: a known one, or one with an opaque sextet
IsB64Digit(ch) == ch[1] = -1 \/ B64Value(ch[1]) >= 0

DigitBits(ch) == IF ch[1] = -1 THEN ch[2] ELSE BitsOf(B64Value(ch[1]), 6)

BitsDigit(sextet) ==
  IF IsKnownBits(sextet) THEN <<B64Unit(BitsValue(sextet, 6)), <<>>>>
  ELSE <<-1, sextet>>

\* buf.toString('base64'): 6 bits per character, the last character filled
\* with zero bits, '=' up to a multiple of 4 characters
Base64Encode(buf) ==
  LET n == Len(buf)
      nchars == (8 * n + 5) \div 6
      at(i) == IF i <= n THEN buf[i] ELSE ByteOf(0)
      bit(k) == ByteBits(at((k \div 8) + 1))[(k % 8) + 1]
      digit(c) ==
        LET i == ((6 * (c - 1)) \div 8) + 1
            o == (6 * (c - 1)) % 8
        IN  IF IsKnown(at(i)) /\ (o <= 2 \/ IsKnown(at(i + 1))) THEN
              LET v == at(i)[1]
                  w == at(i + 1)[1]
              IN  <<B64Unit(CASE o = 0 -> v \div 4
                              [] o = 2 -> v % 64
                              [] o = 4 -> (v % 16) * 4 + (w \div 64)
                              [] o = 6 -> (v % 4) * 16 + (w \div 16)), <<>>>>
            ELSE BitsDigit([j \in 1..6 |-> bit(6 * (c - 1) + j - 1)])
      npad == (4 - (nchars % 4)) % 4
  IN  [c \in 1..nchars |-> digit(c)] \o [i \in 1..npad |-> PadChar]

\* Buffer.from(text, 'base64'): characters outside the alphabet are skipped,
\* decoding stops at the first '=', a trailing partial byte is dropped
Base64Decode(text) ==
  LET pads == {i \in DOMAIN text : text[i] = PadChar}
      stop == IF pads = {} THEN Len(text)
              ELSE (CHOOSE i \in pads : \A j \in pads : i <= j) - 1
      digits == SelectSeq(SubSeq(text, 1, stop), IsB64Digit)
      nbytes == (6 * Len(digits)) \div 8
      bit(k) == DigitBits(digits[(k \div 6) + 1])[(k % 6) + 1]
      byte(b) ==
        LET c == ((8 * (b - 1)) \div 6) + 1
            o == (8 * (b - 1)) % 6
        IN  IF digits[c][1] # -1 /\ digits[c + 1][1] # -1 THEN
              LET v == B64Value(digits[c][1])
                  w == B64Value(digits[c + 1][1])
              IN  ByteOf(CASE o = 0 -> v * 4 + (w \div 16)
                           [] o = 2 -> (v % 16) * 16 + (w \div 4)
                           [] o = 4 -> (v % 4) * 64 + w)
            ELSE BitsByte([j \in 1..8 |-> bit(8 * (b - 1) + j - 1)])
  IN  [b \in 1..nbytes |-> byte(b)]

(***************************************************************************)
(* Ideal primitives of node:crypto.                                        *)
(***************************************************************************)
RECURSIVE StripZeros(_)
StripZeros(b) ==
  IF b # <<>> /\ b[Len(b)] = 0 THEN StripZeros(SubSeq(b, 1, Len(b) - 1)) ELSE b

\* HMAC key block of a password: hashed when longer than the 128-byte block
\* of SHA-512, then padded with zero bytes to the block length
HmacKey(pw) ==
  IF Len(pw) > 128 THEN <<"H", pw>> ELSE <<"K", StripZeros(pw)>>

\* mutation of pbkdf2Sync: the password does not enter the derived key
pbkdf2Sync_NoPassword(password, salt, iterations, keylen, digest) ==
  <<"pbkdf2", digest, iterations, keylen, HmacKey(<<>>), Repr(salt, "")>>

\* crypto.pbkdf2Sync(password, salt, iterations, keylen, digest): the derived
\* key, as the term that determines it
pbkdf2Sync(password, salt, iterations, keylen, digest) ==
  <<"pbkdf2", digest, iterations, keylen,
    HmacKey(Utf8Encode(Units(password))), Repr(salt, "")>>

\* the name of the CTR keystream of a cipher
Keystream(algorithm, key, iv) == ToString(<<"ctr", algorithm, key, Repr(iv, "")>>)

\* one bit XOR keystream bit t; encryption and decryption are the same map
XorBit(bit, ks, t) ==
  IF bit[1] = "" THEN <<ks, 2 * t + bit[2]>>
  ELSE IF bit[1] = ks /\ bit[2] \div 2 = t THEN CBit(bit[2] % 2)
  ELSE <<ToString(<<"xor", bit, ks, t>>), 0>>

\* cipher.update(data) ++ cipher.final() of the CTR part
CtrXor(data, ks) ==
  [i \in DOMAIN data |->
    LET bits == ByteBits(data[i])
    IN  BitsByte([j \in 1..8 |-> XorBit(bits[j], ks, 8 * (i - 1) + (j - 1))])]

\* the 16-byte GCM authentication tag of a ciphertext
GcmTag(algorithm, key, iv, ct) ==
  LET T == ToString(<<"ghash", algorithm, key, Repr(iv, ""),
                       Repr(ct, Keystream(algorithm, key, iv))>>)
  IN  [i \in 1..16 |-> [j \in 1..8 |-> <<T, 2 * (8 * (i - 1) + (j - 1))>>]]

\* tag lengths decipher.setAuthTag accepts in GCM mode
IsValidGCMTagLength(n) == n = 4 \/ n = 8 \/ (n >= 12 /\ n <= 16)

(***************************************************************************)
(* Results of calls: a returned value or a thrown Error with its message   *)
(* (a sequence of text fragments).                                         *)
(***************************************************************************)
Return(v) == [ok |-> TRUE, value |-> v, message |-> <<>>]
Throw(msg) == [ok |-> FALSE, value |-> <<>>, message |-> msg]

InvalidIvMessage == <<"Invalid initialization vector">>
InvalidTagMessage(n) == <<"Invalid authentication tag length: ", ToString(n)>>
AuthFailedMessage == <<"Unsupported state or unable to authenticate data">>

(***************************************************************************)
(* encryptionHelper.ts                                                     *)
(***************************************************************************)
\* crypto.randomBytes(n), the draw numbered c of the process
randomBytes(n, c) == [i \in 1..n |-> ByteOf(c)]

\* mutation of encryptWith: the iv is written in front of the salt
encryptWith_IvFirst(text, password, salt, iv) ==
  LET key == pbkdf2Sync(password, salt, ITERATIONS, KEY_LENGTH, DIGEST)
      encrypted == CtrXor(BufferOf(Utf8Encode(Units(text))), Keystream(ALGORITHM, key, iv))
      tag == GcmTag(ALGORITHM, key, iv, encrypted)
      result == iv \o salt \o tag \o encrypted
  IN  Base64Encode(result)

\* mutation of encryptWith: the tag is appended after the ciphertext
encryptWith_TagLast(text, password, salt, iv) ==
  LET key == pbkdf2Sync(password, salt, ITERATIONS, KEY_LENGTH, DIGEST)
      encrypted == CtrXor(BufferOf(Utf8Encode(Units(text))), Keystream(ALGORITHM, key, iv))
      tag == GcmTag(ALGORITHM, key, iv, encrypted)
      result == salt \o iv \o encrypted \o tag
  IN  Base64Encode(result)

\* encrypt(text, password) with the two random draws made explicit
encryptWith(text, password, salt, iv) ==
  LET key == pbkdf2Sync(password, salt, ITERATIONS, KEY_LENGTH, DIGEST)
      encrypted == CtrXor(BufferOf(Utf8Encode(Units(text))), Keystream(ALGORITHM, key, iv))
      tag == GcmTag(ALGORITHM, key, iv, encrypted)
      result == salt \o iv \o tag \o encrypted
  IN  Base64Encode(result)

\* mutation of encrypt: salt and iv are drawn once and reused by every call
encrypt_ReusedRandom(text, password, c) ==
  encryptWith(text, password, randomBytes(SALT_LENGTH, 1), randomBytes(IV_LENGTH, 2))

\* encrypt(text, password) when c draws have been made before
encrypt(text, password, c) ==
  encryptWith(text, password, randomBytes(SALT_LENGTH, c + 1), randomBytes(IV_LENGTH, c + 2))

\* mutation of decrypt: the authentication tag is never verified (no
\* setAuthTag, no final)
decrypt_NoAuth(encryptedData, password) ==
  LET data == Base64Decode(encryptedData)
      salt == Subarray(data, 0, SALT_LENGTH)
      iv == Subarray(data, SALT_LENGTH, SALT_LENGTH + IV_LENGTH)
      encrypted == Subarray(data, SALT_LENGTH + IV_LENGTH + TAG_LENGTH, Len(data))
      key == pbkdf2Sync(password, salt, ITERATIONS, KEY_LENGTH, DIGEST)
      decrypted == CtrXor(encrypted, Keystream(ALGORITHM, key, iv))
  IN  IF Len(iv) = 0 THEN Throw(InvalidIvMessage)
      ELSE Return(Str(Utf8Decode(Values(decrypted))))

\* mutation of decrypt: the authentication error tells the ciphertext length
decrypt_LeakyError(encryptedData, password) ==
  LET data == Base64Decode(encryptedData)
      salt == Subarray(data, 0, SALT_LENGTH)
      iv == Subarray(data, SALT_LENGTH, SALT_LENGTH + IV_LENGTH)
      tag == Subarray(data, SALT_LENGTH + IV_LENGTH, SALT_LENGTH + IV_LENGTH + TAG_LENGTH)
      encrypted == Subarray(data, SALT_LENGTH + IV_LENGTH + TAG_LENGTH, Len(data))
      key == pbkdf2Sync(password, salt, ITERATIONS, KEY_LENGTH, DIGEST)
      decrypted == CtrXor(encrypted, Keystream(ALGORITHM, key, iv))
      expected == GcmTag(ALGORITHM, key, iv, encrypted)
  IN  IF Len(iv) = 0 THEN Throw(InvalidIvMessage)
      ELSE IF ~IsValidGCMTagLength(Len(tag)) THEN Throw(InvalidTagMessage(Len(tag)))
      ELSE IF tag # SubSeq(expected, 1, Len(tag))
        THEN Throw(AuthFailedMessage \o <<ToString(Len(encrypted))>>)
      ELSE Return(Str(Utf8Decode(Values(decrypted))))

\* decrypt(encryptedData, password)
decrypt(encryptedData, password) ==
  LET data == Base64Decode(encryptedData)
      salt == Subarray(data, 0, SALT_LENGTH)
      iv == Subarray(data, SALT_LENGTH, SALT_LENGTH + IV_LENGTH)
      tag == Subarray(data, SALT_LENGTH + IV_LENGTH, SALT_LENGTH + IV_LENGTH + TAG_LENGTH)
      encrypted == Subarray(data, SALT_LENGTH + IV_LENGTH + TAG_LENGTH, Len(data))
      key == pbkdf2Sync(password, salt, ITERATIONS, KEY_LENGTH, DIGEST)
      decrypted == CtrXor(encrypted, Keystream(ALGORITHM, key, iv))
      expected == GcmTag(ALGORITHM, key, iv, encrypted)
  IN  IF Len(iv) = 0 THEN Throw(InvalidIvMessage)
      ELSE IF ~IsValidGCMTagLength(Len(tag)) THEN Throw(InvalidTagMessage(Len(tag)))
      ELSE IF tag # SubSeq(expected, 1, Len(tag)) THEN Throw(AuthFailedMessage)
      ELSE Return(Str(Utf8Decode(Values(decrypted))))

(***************************************************************************)
(* jsonhelper.ts                                                           *)
(*                                                                         *)
(* A JSON value is [t, s, n]: t its type, s the characters of a string,    *)
(* n the value of a number.  An entry of the configuration document is     *)
(* [object, baseURL, credentials, username, password]: object tells that   *)
(* data[env] is an object, credentials that it has a credentials object.   *)
(* A document is [malformed, object, entries]: malformed tells that the    *)
(* file is not JSON text, object that the parsed value is an object, and   *)
(* entries lists <<key, entry>> in Object.keys order.                      *)
(***************************************************************************)
JStr(s) == [t |-> "string", s |-> s, n |-> 0]
JNum(n) == [t |-> "number", s |-> <<>>, n |-> n]
JNull == [t |-> "null", s |-> <<>>, n |-> 0]
JAbsent == [t |-> "undefined", s |-> <<>>, n |-> 0]

\* JavaScript truthiness of a JSON value
Truthy(v) ==
  CASE v.t = "string" -> v.s # <<>>
    [] v.t = "number" -> v.n # 0
    [] OTHER -> FALSE

\* the literal 'encrypted:'
Marker == Str(<<101, 110, 99, 114, 121, 112, 116, 101, 100, 58>>)

\* mutation of StartsWith: the prefix is looked for at every position
StartsWith_Anywhere(s, prefix) ==
  \E k \in 0..(Len(s) - Len(prefix)) : SubSeq(s, k + 1, k + Len(prefix)) = prefix

\* String.prototype.startsWith
StartsWith(s, prefix) ==
  Len(s) >= Len(prefix) /\ SubSeq(s, 1, Len(prefix)) = prefix

Substring(s, from) == SubSeq(s, from + 1, Len(s))

\* process.env.ENCRYPTION_KEY: unset, or set to a string
Unset == [set |-> FALSE, value |-> <<>>]
SetTo(k) == [set |-> TRUE, value |-> k]

ENCRYPTION_KEY == "ENCRYPTION_KEY"

MissingKeyMessage ==
  <<ENCRYPTION_KEY, " environment variable is required to decrypt passwords. ",
    "Set it with: export ", ENCRYPTION_KEY, "=\"your-key-here\"">>

ParseErrorMessage == <<"Unexpected token in JSON">>

\* mutation of DecryptFailedMessage: the entry is not named
DecryptFailedMessage_NoEntry(env, error) ==
  <<"Failed to decrypt password. ",
    "Verify ", ENCRYPTION_KEY, " is correct. Error: ">> \o error.message

\* the message of the error thrown when decrypt threw error for entry env
DecryptFailedMessage(env, error) ==
  <<"Failed to decrypt password for ", env, " environment. ",
    "Verify ", ENCRYPTION_KEY, " is correct. Error: ">> \o error.message

\* mutation of IsEncrypted: every string password is taken as encrypted
IsEncrypted_AnyString(password) == password.t = "string"

\* typeof password === 'string' && password.startsWith('encrypted:')
IsEncrypted(password) == password.t = "string" /\ StartsWith(password.s, Marker)

\* mutation of IsMissing: the key is never checked
IsMissing_Unchecked(encryptionKey) == FALSE

\* mutation of IsMissing: only an unset variable counts as missing
IsMissing_UndefinedOnly(encryptionKey) == ~encryptionKey.set

\* !encryptionKey
IsMissing(encryptionKey) == ~encryptionKey.set \/ encryptionKey.value = <<>>

\* data[env]?.credentials?.password, taken as a condition
HasPassword(entry) == entry.object /\ entry.credentials /\ Truthy(entry.password)

\* outcome of the forEach callback on one entry: the entry afterwards, or the
\* error thrown, the entries whose password was handed to decrypt, and the
\* texts handed to decrypt for them
Step(ok, entry, message, decrypts, args) ==
  [ok |-> ok, entry |-> entry, message |-> message, decrypts |-> decrypts,
   args |-> args]

\* mutation of ResolveEntry: one character too many is cut off the password
ResolveEntry_OffByOne(env, entry, encryptionKey) ==
  IF ~HasPassword(entry) \/ ~IsEncrypted(entry.password) THEN Step(TRUE, entry, <<>>, <<>>, <<>>)
  ELSE IF IsMissing(encryptionKey) THEN Step(FALSE, entry, MissingKeyMessage, <<>>, <<>>)
  ELSE
    LET encryptedData == Substring(entry.password.s, Len(Marker) + 1)
        r == decrypt(encryptedData, encryptionKey.value)
    IN  IF r.ok
        THEN Step(TRUE, [entry EXCEPT !.password = JStr(r.value)], <<>>, <<env>>,
                  <<encryptedData>>)
        ELSE Step(FALSE, entry, DecryptFailedMessage(env, r), <<env>>, <<encryptedData>>)

\* mutation of ResolveEntry: an entry that fails to decrypt is skipped
ResolveEntry_Swallow(env, entry, encryptionKey) ==
  IF ~HasPassword(entry) \/ ~IsEncrypted(entry.password) THEN Step(TRUE, entry, <<>>, <<>>, <<>>)
  ELSE IF IsMissing(encryptionKey) THEN Step(FALSE, entry, MissingKeyMessage, <<>>, <<>>)
  ELSE
    LET encryptedData == Substring(entry.password.s, Len(Marker))
        r == decrypt(encryptedData, encryptionKey.value)
    IN  IF r.ok
        THEN Step(TRUE, [entry EXCEPT !.password = JStr(r.value)], <<>>, <<env>>,
                  <<encryptedData>>)
        ELSE Step(TRUE, entry, <<>>, <<env>>, <<encryptedData>>)

\* mutation of ResolveEntry: the entry is rebuilt from the fields the helper
\* knows
ResolveEntry_Rebuild(env, entry, encryptionKey) ==
  IF ~HasPassword(entry) \/ ~IsEncrypted(entry.password) THEN Step(TRUE, entry, <<>>, <<>>, <<>>)
  ELSE IF IsMissing(encryptionKey) THEN Step(FALSE, entry, MissingKeyMessage, <<>>, <<>>)
  ELSE
    LET encryptedData == Substring(entry.password.s, Len(Marker))
        r == decrypt(encryptedData, encryptionKey.value)
    IN  IF r.ok
        THEN Step(TRUE, [entry EXCEPT !.password = JStr(r.value), !.timeout = JAbsent],
                  <<>>, <<env>>, <<encryptedData>>)
        ELSE Step(FALSE, entry, DecryptFailedMessage(env, r), <<env>>, <<encryptedData>>)

\* the forEach callback
ResolveEntry(env, entry, encryptionKey) ==
  IF ~HasPassword(entry) \/ ~IsEncrypted(entry.password) THEN Step(TRUE, entry, <<>>, <<>>, <<>>)
  ELSE IF IsMissing(encryptionKey) THEN Step(FALSE, entry, MissingKeyMessage, <<>>, <<>>)
  ELSE
    LET encryptedData == Substring(entry.password.s, Len(Marker))
        r == decrypt(encryptedData, encryptionKey.value)
    IN  IF r.ok
        THEN Step(TRUE, [entry EXCEPT !.password = JStr(r.value)], <<>>, <<env>>,
                  <<encryptedData>>)
        ELSE Step(FALSE, entry, DecryptFailedMessage(env, r), <<env>>, <<encryptedData>>)

\* what a load that throws returns: nothing
NoDocument == [malformed |-> FALSE, object |-> FALSE, entries |-> <<>>]

\* outcome of a load: the document returned or the message of the error
\* thrown, the entries whose password was handed to decrypt, in order, and
\* the texts handed to decrypt for them
Loaded(ok, value, message, decrypts, args) ==
  [done |-> TRUE, ok |-> ok, value |-> value, message |-> message, decrypts |-> decrypts,
   args |-> args]

\* mutation of ForEach: every entry is handled, and the first error is
\* thrown at the end
RECURSIVE ForEach_ThrowAtEnd(_, _, _)
ForEach_ThrowAtEnd(data, i, encryptionKey) ==
  IF i > Len(data.entries) THEN Loaded(TRUE, data, <<>>, <<>>, <<>>)
  ELSE
    LET r == ResolveEntry(data.entries[i][1], data.entries[i][2], encryptionKey)
        rest == ForEach_ThrowAtEnd([data EXCEPT !.entries[i][2] = r.entry], i + 1, encryptionKey)
    IN  IF ~r.ok THEN Loaded(FALSE, NoDocument, r.message, r.decrypts \o rest.decrypts,
                                r.args \o rest.args)
        ELSE [rest EXCEPT !.decrypts = r.decrypts \o @, !.args = r.args \o @]

\* Object.keys(data).forEach(...) from entry i on
RECURSIVE ForEach(_, _, _)
ForEach(data, i, encryptionKey) ==
  IF i > Len(data.entries) THEN Loaded(TRUE, data, <<>>, <<>>, <<>>)
  ELSE
    LET r == ResolveEntry(data.entries[i][1], data.entries[i][2], encryptionKey)
    IN  IF ~r.ok THEN Loaded(FALSE, NoDocument, r.message, r.decrypts, r.args)
        ELSE
          LET rest == ForEach([data EXCEPT !.entries[i][2] = r.entry], i + 1, encryptionKey)
          IN  [rest EXCEPT !.decrypts = r.decrypts \o @, !.args = r.args \o @]

\* mutation of readJsonFile: the key is looked at before the file is parsed
readJsonFile_KeyFirst(content, encryptionKey) ==
  IF IsMissing(encryptionKey) THEN Loaded(FALSE, NoDocument, MissingKeyMessage, <<>>, <<>>)
  ELSE IF content.malformed THEN Loaded(FALSE, NoDocument, ParseErrorMessage, <<>>, <<>>)
  ELSE IF ~content.object THEN Loaded(TRUE, content, <<>>, <<>>, <<>>)
  ELSE ForEach(content, 1, encryptionKey)

\* readJsonFile(filePath) for the file's content and the environment
readJsonFile(content, encryptionKey) ==
  IF content.malformed THEN Loaded(FALSE, NoDocument, ParseErrorMessage, <<>>, <<>>)
  ELSE IF ~content.object THEN Loaded(TRUE, content, <<>>, <<>>, <<>>)
  ELSE ForEach(content, 1, encryptionKey)

(***************************************************************************)
(* Inputs of the model.                                                    *)
(***************************************************************************)
\* code units of plaintexts: 'a', and the surrogate pair of U+1F600 (4 bytes
\* in UTF-8) and each of its halves alone; DefaultText adds e-acute (2 bytes)
TextUnits == {97, 55357, 56832}

\* code units of passphrases: NUL, 'a' and two surrogates
KeyUnits == {0, 97, 55357, 56832}

SeqsUpTo(S, n) == UNION {[1..m -> S] : m \in 0..n}

Plaintexts == {Str(u) : u \in SeqsUpTo(TextUnits, MaxTextLen)}
Passphrases == {Str(u) : u \in SeqsUpTo(KeyUnits, MaxKeyLen)}

DefaultText == Str(<<97, 233>>)
DefaultKey == Str(<<97>>)

\* the (plaintext, passphrase) pairs a run works with
CodecInputs ==
  {<<p, DefaultKey>> : p \in Plaintexts} \cup {<<DefaultText, k>> : k \in Passphrases}

EnvelopeLength == SALT_LENGTH + IV_LENGTH + TAG_LENGTH

\* byte positions (1-based) an envelope of n bytes is tampered at: salt and
\* iv boundaries, the whole tag region and the whole ciphertext region
TamperPositions(n) == {1, 64, 65, 80} \cup (81..n)

\* replacement of one byte: complement bit c (1..8) or all bits (0), or put
\* the known byte 0x00 (9)
TamperChanges == {0, 8, 9}

ChangeByte(byte, c) ==
  LET bits == ByteBits(byte)
  IN  IF c = 9 THEN ByteOf(0)
      ELSE BitsByte([j \in 1..8 |-> IF c = 0 \/ c = j THEN FlipBit(bits[j]) ELSE bits[j]])

TamperedText(envelope, pos, c) ==
  LET data == Base64Decode(envelope)
  IN  Base64Encode([data EXCEPT ![pos] = ChangeByte(@, c)])

\* lengths an envelope is cut to
TruncLengths(n) ==
  {0, 1, 63, 64, 65, 79, 80, 81, 83, 84, 87, 88, 91, 92, 93, 94, 95} \cup (96..(n - 1))

TruncatedText(envelope, n) == Base64Encode(Subarray(Base64Decode(envelope), 0, n))

\* texts that are not canonical base64: kind 1 an illegal character in front
\* of the envelope, 2 one in the middle, 3 a pad character in front,
\* 4 only illegal characters, 5 the empty text
JunkKinds == 1..5

JunkText(envelope, kind) ==
  CASE kind = 1 -> Str(<<33>>) \o envelope
    [] kind = 2 -> SubSeq(envelope, 1, 40) \o Str(<<32, 10>>) \o SubSeq(envelope, 41, Len(envelope))
    [] kind = 3 -> <<PadChar>> \o envelope
    [] kind = 4 -> Str(<<33, 33, 33, 33>>)
    [] kind = 5 -> <<>>

(***************************************************************************)
(* scripts/encryptPassword.ts, the offline encryption utility.             *)
(* A line of output is a sequence of pieces, each a literal text followed  *)
(* by an interpolated string value.                                        *)
(***************************************************************************)
CLI_ALGORITHM == "aes-256-gcm"
CLI_IV_LENGTH == 16
CLI_SALT_LENGTH == 64
CLI_TAG_LENGTH == 16
CLI_ITERATIONS == 100000
CLI_KEY_LENGTH == 32

\* mutation of cliEncryptWith: the key is derived with a tenth of the rounds
cliEncryptWith_FewerRounds(text, password, salt, iv) ==
  LET key == pbkdf2Sync(password, salt, 10000, CLI_KEY_LENGTH, "sha512")
      encrypted == CtrXor(BufferOf(Utf8Encode(Units(text))), Keystream(CLI_ALGORITHM, key, iv))
      tag == GcmTag(CLI_ALGORITHM, key, iv, encrypted)
      result == salt \o iv \o tag \o encrypted
  IN  Base64Encode(result)

\* the utility's own encrypt(text, password), after its two random draws
cliEncryptWith(text, password, salt, iv) ==
  LET key == pbkdf2Sync(password, salt, CLI_ITERATIONS, CLI_KEY_LENGTH, "sha512")
      encrypted == CtrXor(BufferOf(Utf8Encode(Units(text))), Keystream(CLI_ALGORITHM, key, iv))
      tag == GcmTag(CLI_ALGORITHM, key, iv, encrypted)
      result == salt \o iv \o tag \o encrypted
  IN  Base64Encode(result)

\* the utility's own encrypt(text, password) when c draws have been made
cliEncrypt(text, password, c) ==
  cliEncryptWith(text, password, randomBytes(CLI_SALT_LENGTH, c + 1),
                 randomBytes(CLI_IV_LENGTH, c + 2))

Piece(lit, val) == [lit |-> lit, val |-> val]
Line(to, pieces) == [to |-> to, pieces |-> pieces]

\* console.log / console.error of a literal
Log(lit) == Line("stdout", <<Piece(lit, <<>>)>>)
LogError(lit) == Line("stderr", <<Piece(lit, <<>>)>>)

Banner == Log("=== Password Encryption Utility ===\n")
PasswordPrompt == Log("Enter password to encrypt: ")
KeyPrompt == Log("Enter encryption key (store in ENCRYPTION_KEY env var): ")

\* the utility after rl.question has asked for the password
CliStart ==
  [stage |-> "password", password |-> <<>>, encryptionKey |-> <<>>,
   output |-> <<Banner, PasswordPrompt>>, exit |-> -1, encrypts |-> 0]

\* the callback of the first question: the second question is asked
OnPassword(c, password) ==
  [c EXCEPT !.stage = "key", !.password = password,
            !.output = Append(@, KeyPrompt)]

\* what the try block writes
Success(password, encryptionKey) ==
  LET encrypted == cliEncrypt(password, encryptionKey, 0)
  IN  <<Log("\n(check mark) Password encrypted successfully!\n"),
        Log("Add this to config.json:"),
        Line("stdout", <<Piece("\"password\": \"", Marker \o encrypted), Piece("\"\n", <<>>)>>),
        Log("Set this environment variable locally:"),
        Line("stdout", <<Piece("export ENCRYPTION_KEY=\"", encryptionKey), Piece("\"", <<>>)>>),
        Log("\nFor GitHub Actions, add ENCRYPTION_KEY to repository secrets.\n")>>

\* mutation of OnKey: the error is reported but the process is not ended,
\* and the try block runs
OnKey_NoExit(c, encryptionKey) ==
  IF c.password = <<>> \/ encryptionKey = <<>>
  THEN [c EXCEPT !.stage = "closed", !.encryptionKey = encryptionKey,
                 !.output = Append(@, LogError("\nError: Both password and encryption key are required"))
                              \o Success(c.password, encryptionKey),
                 !.encrypts = @ + 1,
                 !.exit = 0]
  ELSE [c EXCEPT !.stage = "closed", !.encryptionKey = encryptionKey,
                 !.output = @ \o Success(c.password, encryptionKey),
                 !.encrypts = @ + 1,
                 !.exit = 0]

\* the callback of the second question: encrypts counts the calls of encrypt
OnKey(c, encryptionKey) ==
  IF c.password = <<>> \/ encryptionKey = <<>>
  THEN [c EXCEPT !.stage = "closed", !.encryptionKey = encryptionKey,
                 !.output = Append(@, LogError("\nError: Both password and encryption key are required")),
                 !.exit = 1]
  ELSE [c EXCEPT !.stage = "closed", !.encryptionKey = encryptionKey,
                 !.output = @ \o Success(c.password, encryptionKey),
                 !.encrypts = @ + 1,
                 !.exit = 0]

(***************************************************************************)
(* videoHelper.ts and the HTMLVideoElement it evaluates its callbacks on.  *)
(* A video is [paused, readyState, currentTime, duration, allowed]: times  *)
(* are whole seconds, allowed tells whether the browser's autoplay policy  *)
(* lets a script start playback.                                           *)
(***************************************************************************)
\* length of the media and longest skip of a run, in seconds
MaxDuration == 3
MaxSkip == 2

\* HAVE_NOTHING, HAVE_CURRENT_DATA, HAVE_FUTURE_DATA
ReadyStates == {0, 2, 3}

\* video.ended: playback has reached the end of the media
Ended(v) == v.readyState >= 1 /\ v.currentTime = v.duration

\* video.play(): rejected when playback is not allowed; restarts an ended
\* video; clears paused
Play(v) ==
  IF ~v.allowed THEN v
  ELSE [v EXCEPT !.paused = FALSE,
                 !.currentTime = IF Ended(v) THEN 0 ELSE @]

\* mutation of Pause: pause toggles playback
Pause_Toggle(v) == [v EXCEPT !.paused = ~@]

\* video.pause()
Pause(v) == [v EXCEPT !.paused = TRUE]

\* video.currentTime = time: a seek, clamped to the media once its length is
\* known
SetCurrentTime(v, time) ==
  IF v.readyState = 0 THEN [v EXCEPT !.currentTime = time]
  ELSE [v EXCEPT !.currentTime = IF time > v.duration THEN v.duration
                                 ELSE IF time < 0 THEN 0 ELSE time]

isVideoPlaying(v) == ~v.paused /\ ~Ended(v) /\ v.readyState > 2

getCurrentTime(v) == v.currentTime

seekToTime(v, timeInSeconds) == SetCurrentTime(v, timeInSeconds)

playVideo(v) == Play(v)

pauseVideo(v) == Pause(v)

\* mutation of skipTarget: the seconds to skip are taken as the position
skipTarget_Absolute(currentTime, secondsToSkip) == secondsToSkip

\* newTime of skipForward
skipTarget(currentTime, secondsToSkip) == currentTime + secondsToSkip

NoVideo ==
  [paused |-> TRUE, readyState |-> 0, currentTime |-> 0, duration |-> 0, allowed |-> FALSE]

\* the last helper call that acts on the video (op, with its argument arg
\* and the video before it, pre), the time skipForward has read (local),
\* whether the media has been left alone since it began (quiet), and what a later
\* isVideoPlaying (playing) or getCurrentTime (time) returned
NoProbe ==
  [op |-> "none", arg |-> 0, pre |-> NoVideo, local |-> 0, quiet |-> TRUE,
   playing |-> "unasked", time |-> -1]

Videos ==
  [paused : BOOLEAN, readyState : ReadyStates, currentTime : 0..MaxDuration,
   duration : {MaxDuration}, allowed : BOOLEAN]

(***************************************************************************)
(* YouTubePage.skipAds.  A call is [pc, adCount, clicks, skipped, failed,  *)
(* late, warned, queue]: pc the await the call stands at, clicks the calls *)
(* of skipButton.click(), skipped those that resolved, failed whether the  *)
(* catch block has run, late whether the button was waited for again after *)
(* that, warned whether the limit warning was logged, queue the ads the    *)
(* page still has to play, each TRUE when it shows a skip button.          *)
(***************************************************************************)
maxAds == 5

NoAds ==
  [pc |-> "idle", adCount |-> 0, clicks |-> 0, skipped |-> 0, failed |-> FALSE,
   late |-> FALSE, warned |-> FALSE, queue |-> <<>>]

\* the code after the while loop: the limit warning, the last line, the
\* return
Finish(a) == [a EXCEPT !.pc = "returned", !.warned = (a.adCount >= maxAds)]

\* while (adCount < maxAds): the next iteration waits for the skip button
Loop(a) ==
  IF a.adCount < maxAds THEN [a EXCEPT !.pc = "waitFor", !.late = a.failed]
  ELSE Finish(a)

\* mutation of Caught: the catch block does not leave the loop
Caught_Continue(a) == Loop([a EXCEPT !.failed = TRUE])

\* the catch block of an iteration: a line is logged and the loop is left
Caught(a) == Finish([a EXCEPT !.failed = TRUE])

\* the call: adCount = 0 and the first loop test
skipAds(a) == Loop([a EXCEPT !.adCount = 0])

\* skipButton.waitFor settles: resolved, adCount++ and click() is called;
\* rejected, the catch block runs
WaitForSettled(a, visible) ==
  IF visible THEN [a EXCEPT !.adCount = @ + 1, !.clicks = @ + 1, !.pc = "click"]
  ELSE Caught(a)

\* skipButton.click settles: resolved, the loop goes on; rejected, the
\* catch block runs
ClickSettled(a, clicked) ==
  IF clicked THEN Loop([a EXCEPT !.skipped = @ + 1])
  ELSE Caught(a)

(***************************************************************************)
(* tests/authSetup/auth.setup.ts, 'authenticate with Google', with the     *)
(* page object methods it awaits.  The setup is [run, pc, dialog, session, *)
(* isSignedIn, error, authFile]: run counts the runs, pc is the await the  *)
(* run stands at, dialog tells that the cookie consent dialog is shown,    *)
(* session whether the browser context holds a signed-in session,          *)
(* isSignedIn what youtubePage.isSignedIn() returned in this run, error    *)
(* the step that threw.  authFile is playwright/.auth/user.json: whether   *)
(* it exists, the run that wrote it, and whether the state it holds is a   *)
(* signed-in one.                                                          *)
(***************************************************************************)
NoAuthFile == [exists |-> FALSE, run |-> 0, signedIn |-> FALSE]

NoSetup ==
  [run |-> 0, pc |-> "idle", dialog |-> FALSE, session |-> FALSE,
   isSignedIn |-> "unasked", error |-> "none", authFile |-> NoAuthFile]

\* a run starts with a fresh browser context and calls navigate()
StartRun(s, dialog) ==
  [s EXCEPT !.run = @ + 1, !.pc = "navigate", !.dialog = dialog, !.session = FALSE,
            !.isSignedIn = "unasked", !.error = "none"]

\* an awaited call rejects or expect throws: the test body is left
Fail(s, step) == [s EXCEPT !.pc = "failed", !.error = step]

\* await youtubePage.navigate() settles; acceptCookies() is called next
Navigated(s, ok) ==
  IF ok THEN [s EXCEPT !.pc = "acceptCookies"] ELSE Fail(s, "navigate")

\* await youtubePage.acceptCookies() settles: it clicks the dialog away
\* when it can and swallows every error; clickSignIn() is called next
CookiesHandled(s, clicked) ==
  [s EXCEPT !.pc = "clickSignIn", !.dialog = @ /\ ~clicked]

\* await youtubePage.clickSignIn() settles; performLogin is called next
SignInClicked(s, ok) ==
  IF ok THEN [s EXCEPT !.pc = "performLogin"] ELSE Fail(s, "clickSignIn")

\* await googleLoginPage.performLogin(...) settles: it throws when a form
\* element does not show up; when it returns, Google has accepted the
\* credentials or not.  page.waitForURL is called next
LoginPerformed(s, ok, accepted) ==
  IF ok THEN [s EXCEPT !.pc = "waitForURL", !.session = accepted]
  ELSE Fail(s, "performLogin")

\* await page.waitForURL(baseURL, 30 s) settles; isSignedIn() is called next
UrlReached(s, ok) ==
  IF ok THEN [s EXCEPT !.pc = "isSignedIn"] ELSE Fail(s, "waitForURL")

\* mutation of Expect: the expectation is soft and the test goes on
Expect_Soft(s) == [s EXCEPT !.pc = "storageState"]

\* expect(isSignedIn).toBeTruthy(); storageState({path}) is called next
Expect(s) ==
  IF s.isSignedIn = "true" THEN [s EXCEPT !.pc = "storageState"]
  ELSE Fail(s, "expect")

\* await youtubePage.isSignedIn() settles: true when the avatar became
\* visible within 5 s, false otherwise; then the expectation
SignedInChecked(s, visible) ==
  Expect([s EXCEPT !.isSignedIn = IF visible THEN "true" ELSE "false"])

\* await page.context().storageState({ path: authFile }) settles
StateSaved(s, ok) ==
  IF ok
  THEN [s EXCEPT !.pc = "passed",
                 !.authFile = [exists |-> TRUE, run |-> s.run, signedIn |-> s.session]]
  ELSE Fail(s, "storageState")

(***************************************************************************)
(* ScreenshotUtils.  The clock counts milliseconds from                    *)
(* 2026-01-01T00:00:00.000Z.  The state is [now, names, taken, exists,     *)
(* files]: names the filenames generateScreenshotFilename returned, in     *)
(* call order, taken the number of them handed to takeScreenshot so far,   *)
(* exists whether the screenshots/ directory exists, files the files in    *)
(* it, each <<filename, n>> holding the picture of the n-th call.          *)
(***************************************************************************)
Digit(d) == 48 + d

Digits2(n) == <<Digit((n \div 10) % 10), Digit(n % 10)>>

Digits3(n) == <<Digit((n \div 100) % 10)>> \o Digits2(n)

\* Date.prototype.toISOString for the instant now: YYYY-MM-DDTHH:mm:ss.sssZ
toISOString(now) ==
  Str(<<50, 48, 50, 54, 45, 48, 49, 45, 48, 49, 84>>
      \o Digits2((now \div 3600000) % 24) \o <<58>>
      \o Digits2((now \div 60000) % 60) \o <<58>>
      \o Digits2((now \div 1000) % 60) \o <<46>>
      \o Digits3(now % 1000) \o <<90>>)

\* s.replace(/:/g, '-')
ReplaceColons(s) == [i \in DOMAIN s |-> IF s[i] = <<58, <<>>>> THEN <<45, <<>>>> ELSE s[i]]

\* s.split('.')[0]: the text before the first '.'
RECURSIVE BeforeDot(_)
BeforeDot(s) ==
  IF s = <<>> \/ Head(s) = <<46, <<>>>> THEN <<>>
  ELSE <<Head(s)>> \o BeforeDot(Tail(s))

\* generateScreenshotFilename() called at the instant now
generateScreenshotFilename(now) ==
  LET timestamp == BeforeDot(ReplaceColons(toISOString(now)))
  IN  Str(<<115, 99, 114, 101, 101, 110, 115, 104, 111, 116, 45>>)
        \o timestamp \o Str(<<46, 112, 110, 103>>)

NoShots == [now |-> 0, names |-> <<>>, taken |-> 0, exists |-> FALSE, files |-> {}]

\* takeScreenshot(page, filename) for the picture of call n: the directory
\* is made when missing, and page.screenshot writes the file, replacing a
\* file of the same name
takeScreenshot(sh, filename, n) ==
  [sh EXCEPT !.exists = TRUE,
             !.files = {f \in @ : f[1] # filename} \cup {<<filename, n>>},
             !.taken = n]

\* screenshotExists(filename)
screenshotExists(sh, filename) == sh.exists /\ \E f \in sh.files : f[1] = filename


(***************************************************************************)
(* State.                                                                  *)
(***************************************************************************)
VARIABLES
  text,        \* the plaintext handed to encrypt
  password,    \* the passphrase handed to encrypt
  draws,       \* number of crypto.randomBytes draws made so far
  envelopes,   \* the texts returned by the encrypt calls, in call order
  observed,    \* the last decrypt call: its arguments and its outcome
  file,        \* the configuration document stored in config.json
  env,         \* process.env.ENCRYPTION_KEY
  loaded,      \* the outcome of the last readJsonFile call on file and env
  calls,       \* the readJsonFile calls made so far: TRUE for one that returned
  cli,         \* the encryption utility: its prompt, its answers, its output
  video,       \* the HTMLVideoElement the video helper works on
  probe,       \* the last video helper call and what was observed after it
  ads,         \* a skipAds call and the ads of the page it runs on
  setup,       \* the runs of the authentication setup and the file they save
  shots        \* the clock, the screenshot filenames and the screenshots/ directory

vars == <<text, password, draws, envelopes, observed, file, env, loaded,
          calls, cli, video, probe, ads, setup, shots>>

NoCall == [op |-> "none", src |-> 0, pos |-> 0, data |-> <<>>, password |-> <<>>,
           result |-> Return(<<>>)]

Observe(op, src, pos, data, pw) ==
  LET d == data
  IN  [op |-> op, src |-> src, pos |-> pos, data |-> d, password |-> pw,
       result |-> decrypt(d, pw)]

NoLoad == [done |-> FALSE, ok |-> FALSE, value |-> NoDocument, message |-> <<>>,
           decrypts |-> <<>>, args |-> <<>>]

\* an entry {baseURL, credentials: {username, password}, timeout}: a
\* top-level value that is an object, with one additional field
Entry(pw) ==
  [object |-> TRUE, baseURL |-> Str(<<104>>), credentials |-> TRUE,
   username |-> Str(<<117>>), password |-> pw, timeout |-> JNum(30),
   scalar |-> JAbsent]

\* a top-level value that is not an object
Scalar(v) ==
  [object |-> FALSE, baseURL |-> <<>>, credentials |-> FALSE,
   username |-> <<>>, password |-> JAbsent, timeout |-> JAbsent,
   scalar |-> v]

\* the configuration as checked out: two environments with plaintext
\* passwords, and a top-level string that starts like an encrypted password
InitialConfig ==
  [malformed |-> FALSE, object |-> TRUE,
   entries |-> <<<<"QA", Entry(JStr(Str(<<112>>)))>>,
                 <<"UAT", Entry(JStr(Str(<<112>>)))>>,
                 <<"note", Scalar(JStr(Marker \o Str(<<120>>)))>>>>]

CodecInit ==
  /\ \E in \in CodecInputs : text = in[1] /\ password = in[2]
  /\ draws = 0
  /\ envelopes = <<>>
  /\ observed = NoCall
  /\ file = InitialConfig
  /\ env = Unset
  /\ loaded = NoLoad
  /\ calls = <<>>
  /\ cli = CliStart
  /\ ads = NoAds
  /\ setup = NoSetup
  /\ shots = NoShots
  /\ video = NoVideo
  /\ probe = NoProbe

\* a call encrypt(text, password); a run makes its encrypt calls first and
\* ends with one decrypt call
CallEncrypt ==
  /\ observed = NoCall
  /\ Len(envelopes) < MaxCalls
  /\ envelopes' = Append(envelopes, encrypt(text, password, draws))
  /\ draws' = draws + 2
  /\ UNCHANGED <<text, password, observed, file, env, loaded>>
  /\ UNCHANGED <<calls, cli, video, probe, ads, setup, shots>>

\* a call decrypt(e, k) on an envelope as encrypt returned it
CallDecrypt ==
  /\ observed = NoCall
  /\ \E i \in DOMAIN envelopes, k \in Passphrases :
       observed' = Observe("intact", i, 0, envelopes[i], k)
  /\ UNCHANGED <<text, password, draws, envelopes, file, env, loaded>>
  /\ UNCHANGED <<calls, cli, video, probe, ads, setup, shots>>

Last == Len(envelopes)

\* a call decrypt(e', password) on the last envelope with one byte changed
CallDecryptTampered ==
  /\ observed = NoCall
  /\ envelopes # <<>>
  /\ \E pos \in TamperPositions(Len(Base64Decode(envelopes[Last]))), c \in TamperChanges :
       observed' = Observe("tampered", Last, pos, TamperedText(envelopes[Last], pos, c), password)
  /\ UNCHANGED <<text, password, draws, envelopes, file, env, loaded>>
  /\ UNCHANGED <<calls, cli, video, probe, ads, setup, shots>>

\* a call decrypt(e', password) on a prefix of the last envelope
CallDecryptTruncated ==
  /\ observed = NoCall
  /\ envelopes # <<>>
  /\ \E n \in TruncLengths(Len(Base64Decode(envelopes[Last]))) :
       observed' = Observe("truncated", Last, n, TruncatedText(envelopes[Last], n), password)
  /\ UNCHANGED <<text, password, draws, envelopes, file, env, loaded>>
  /\ UNCHANGED <<calls, cli, video, probe, ads, setup, shots>>

\* a call decrypt(t, password) on a text that is not canonical base64
CallDecryptJunk ==
  /\ observed = NoCall
  /\ envelopes # <<>>
  /\ \E kind \in JunkKinds :
       observed' = Observe("junk", Last, kind, JunkText(envelopes[Last], kind), password)
  /\ UNCHANGED <<text, password, draws, envelopes, file, env, loaded>>
  /\ UNCHANGED <<calls, cli, video, probe, ads, setup, shots>>

CodecNext ==
  \/ CallEncrypt
  \/ CallDecrypt
  \/ CallDecryptTampered
  \/ CallDecryptTruncated
  \/ CallDecryptJunk

CodecSpec == CodecInit /\ [][CodecNext]_vars

(***************************************************************************)
(* The configuration workflow: the operator edits config.json and the      *)
(* environment, the test suite loads the configuration.                    *)
(***************************************************************************)
\* the (secret, passphrase) pairs an operator works with
OperatorInputs ==
  {<<Str(<<97, 233>>), DefaultKey>>, <<<<>>, DefaultKey>>,
   <<Str(<<55357>>), DefaultKey>>, <<Str(<<97, 233>>), <<>>>>}
OtherKey == Str(<<97, 97>>)

\* values an operator types as a password: the empty string, a number, and
\* near misses of the marker: 'Encrypted:p', ' encrypted:p', 'p:encrypted:p',
\* 'encrypted;p', and the bare marker 'encrypted:'
TypedPasswords ==
  {JStr(<<>>),
   JStr(Str(<<69, 110, 99, 114, 121, 112, 116, 101, 100, 58, 112>>)),
   JStr(Str(<<32, 101, 110, 99, 114, 121, 112, 116, 101, 100, 58, 112>>)),
   JStr(Str(<<112, 58, 101, 110, 99, 114, 121, 112, 116, 101, 100, 58, 112>>)),
   JStr(Str(<<101, 110, 99, 114, 121, 112, 116, 101, 100, 59, 112>>)),
   JStr(Str(<<101, 110, 99, 114, 121, 112, 116, 101, 100, 58>>)),
   JNum(7)}

\* damage to a stored envelope: kind 1 a flipped tag bit, 2 cut to 92 bytes,
\* 3 cut to 64 bytes
DamageKinds == 1..3

Damaged(envelope, kind) ==
  CASE kind = 1 -> TamperedText(envelope, 81, 1)
    [] kind = 2 -> TruncatedText(envelope, 92)
    [] kind = 3 -> TruncatedText(envelope, 64)

\* config.json and the environment are prepared, then the suite starts and
\* loads the configuration
Init ==
  /\ \E in \in OperatorInputs : text = in[1] /\ password = in[2]
  /\ draws = 0
  /\ envelopes = <<>>
  /\ observed = NoCall
  /\ file = InitialConfig
  /\ env = Unset
  /\ loaded = NoLoad
  /\ calls = <<>>
  /\ cli = CliStart
  /\ ads = NoAds
  /\ setup = NoSetup
  /\ shots = NoShots
  /\ video = NoVideo
  /\ probe = NoProbe

Entries == DOMAIN file.entries

\* an entry whose password the operator keeps in plaintext so far
IsPlain(i) ==
  file.entries[i][2].credentials /\ ~IsEncrypted(file.entries[i][2].password)

\* the operator encrypts the secret and pastes 'encrypted:<base64>' over a
\* plaintext password
PasteEncrypted ==
  /\ ~loaded.done
  /\ Len(envelopes) < MaxCalls
  /\ \E i \in Entries :
       LET e == encrypt(text, password, draws)
       IN  /\ IsPlain(i)
           /\ envelopes' = Append(envelopes, e)
           /\ file' = [file EXCEPT !.entries[i][2].password = JStr(Marker \o e)]
  /\ draws' = draws + 2
  /\ UNCHANGED <<text, password, observed, env, loaded>>
  /\ UNCHANGED <<calls, cli, video, probe, ads, setup, shots>>

\* the operator types a password into an entry
TypePassword ==
  /\ ~loaded.done
  /\ \E i \in Entries, v \in TypedPasswords :
       /\ IsPlain(i)
       /\ file' = [file EXCEPT !.entries[i][2].password = v]
  /\ UNCHANGED <<text, password, draws, envelopes, observed, env, loaded>>
  /\ UNCHANGED <<calls, cli, video, probe, ads, setup, shots>>

\* a stored envelope is damaged
DamagePassword ==
  /\ ~loaded.done
  /\ \E i \in Entries, j \in DOMAIN envelopes, kind \in DamageKinds :
       /\ file.entries[i][2].password = JStr(Marker \o envelopes[j])
       /\ file' = [file EXCEPT !.entries[i][2].password = JStr(Marker \o Damaged(envelopes[j], kind))]
  /\ UNCHANGED <<text, password, draws, envelopes, observed, env, loaded>>
  /\ UNCHANGED <<calls, cli, video, probe, ads, setup, shots>>

\* the operator removes the credentials of an entry
RemoveCredentials ==
  /\ ~loaded.done
  /\ \E i \in Entries :
       /\ IsPlain(i)
       /\ file' = [file EXCEPT !.entries[i][2].credentials = FALSE,
                               !.entries[i][2].password = JAbsent]
  /\ UNCHANGED <<text, password, draws, envelopes, observed, env, loaded>>
  /\ UNCHANGED <<calls, cli, video, probe, ads, setup, shots>>

\* the environment variable is set or unset
SetKey ==
  /\ ~loaded.done
  /\ \E k \in {password, OtherKey, <<>>} : env' = SetTo(k)
  /\ env' # env
  /\ UNCHANGED <<text, password, draws, envelopes, observed, file, loaded>>
  /\ UNCHANGED <<calls, cli, video, probe, ads, setup, shots>>

UnsetKey ==
  /\ ~loaded.done
  /\ env.set
  /\ env' = Unset
  /\ UNCHANGED <<text, password, draws, envelopes, observed, file, loaded>>
  /\ UNCHANGED <<calls, cli, video, probe, ads, setup, shots>>

\* mutation of LoadCall: the decrypted document is written back to the file
LoadCall_WriteBack ==
  /\ loaded' = readJsonFile(file, env)
  /\ calls' = Append(calls, loaded'.ok)
  /\ file' = IF loaded'.ok THEN loaded'.value ELSE file
  /\ UNCHANGED <<text, password, draws, envelopes, observed, env>>
  /\ UNCHANGED <<cli, video, probe, ads, setup, shots>>

\* mutation of LoadCall: a document that was returned once is reused
LoadCall_Cached ==
  /\ loaded' = IF loaded.done /\ loaded.ok THEN loaded ELSE readJsonFile(file, env)
  /\ calls' = Append(calls, loaded'.ok)
  /\ UNCHANGED <<text, password, draws, envelopes, observed, file, env>>
  /\ UNCHANGED <<cli, video, probe, ads, setup, shots>>

\* a call readJsonFile(filePath)
LoadCall ==
  /\ loaded' = readJsonFile(file, env)
  /\ calls' = Append(calls, loaded'.ok)
  /\ UNCHANGED <<text, password, draws, envelopes, observed, file, env>>
  /\ UNCHANGED <<cli, video, probe, ads, setup, shots>>

\* the suite calls readJsonFile
Load ==
  /\ ~loaded.done
  /\ LoadCall

Next ==
  \/ PasteEncrypted
  \/ TypePassword
  \/ DamagePassword
  \/ RemoveCredentials
  \/ SetKey
  \/ UnsetKey
  \/ Load

Spec == Init /\ [][Next]_vars

(***************************************************************************)
(* A suite that loads the configuration several times while the file and   *)
(* the environment change between the calls.                               *)
(***************************************************************************)
\* readJsonFile calls of a run
MaxLoads == 2

SuiteInit ==
  /\ text = DefaultText /\ password = DefaultKey
  /\ draws = 0
  /\ envelopes = <<>>
  /\ observed = NoCall
  /\ file = InitialConfig
  /\ env = Unset
  /\ loaded = NoLoad
  /\ calls = <<>>
  /\ cli = CliStart
  /\ ads = NoAds
  /\ setup = NoSetup
  /\ shots = NoShots
  /\ video = NoVideo
  /\ probe = NoProbe

\* config.json is cut short or otherwise stops being JSON text
CorruptFile ==
  /\ ~file.malformed
  /\ Len(calls) < MaxLoads
  /\ file' = [file EXCEPT !.malformed = TRUE]
  /\ UNCHANGED <<text, password, draws, envelopes, observed, env, loaded>>
  /\ UNCHANGED <<calls, cli, video, probe, ads, setup, shots>>

\* a stored envelope is damaged after the configuration has been loaded
DamageLoaded ==
  /\ loaded.done
  /\ Len(calls) < MaxLoads
  /\ \E i \in Entries, j \in DOMAIN envelopes :
       /\ file.entries[i][2].password = JStr(Marker \o envelopes[j])
       /\ file' = [file EXCEPT !.entries[i][2].password = JStr(Marker \o Damaged(envelopes[j], 1))]
  /\ UNCHANGED <<text, password, draws, envelopes, observed, env, loaded>>
  /\ UNCHANGED <<calls, cli, video, probe, ads, setup, shots>>

\* the key is withdrawn after the configuration has been loaded
WithdrawKey ==
  /\ loaded.done
  /\ Len(calls) < MaxLoads
  /\ env.set
  /\ env' = Unset
  /\ UNCHANGED <<text, password, draws, envelopes, observed, file, loaded>>
  /\ UNCHANGED <<calls, cli, video, probe, ads, setup, shots>>

\* the suite calls readJsonFile, for the first time or again
SuiteLoad ==
  /\ Len(calls) < MaxLoads
  /\ LoadCall

SuiteNext ==
  \/ PasteEncrypted
  \/ SetKey
  \/ CorruptFile
  \/ DamageLoaded
  \/ WithdrawKey
  \/ SuiteLoad

SuiteSpec == SuiteInit /\ [][SuiteNext]_vars

(***************************************************************************)
(* The video steps of the end-to-end test: helper calls on a video element *)
(* that plays, buffers and ends on its own.                                *)
(***************************************************************************)
VideoInit ==
  /\ text = DefaultText /\ password = DefaultKey
  /\ draws = 0
  /\ envelopes = <<>>
  /\ observed = NoCall
  /\ file = InitialConfig
  /\ env = Unset
  /\ loaded = NoLoad
  /\ calls = <<>>
  /\ cli = CliStart
  /\ ads = NoAds
  /\ setup = NoSetup
  /\ shots = NoShots
  /\ video \in Videos
  /\ probe = NoProbe

rest == <<text, password, draws, envelopes, observed, file, env, loaded, calls, cli,
         ads, setup, shots>>

\* no helper call is under way and nothing has been asked since the last one
Idle == probe.op # "skipForward.read" /\ probe.playing = "unasked" /\ probe.time = -1

Called(op, arg) ==
  [op |-> op, arg |-> arg, pre |-> video, local |-> 0, quiet |-> TRUE,
   playing |-> "unasked", time |-> -1]

PlayVideo ==
  /\ Idle
  /\ video' = playVideo(video)
  /\ probe' = Called("playVideo", 0)
  /\ UNCHANGED rest

PauseVideo ==
  /\ Idle
  /\ video' = pauseVideo(video)
  /\ probe' = Called("pauseVideo", 0)
  /\ UNCHANGED rest

SeekToTime ==
  /\ Idle
  /\ \E t \in 0..(MaxDuration + 1) :
       /\ video' = seekToTime(video, t)
       /\ probe' = Called("seekToTime", t)
  /\ UNCHANGED rest

\* skipForward up to its first await: the current time is read
SkipForwardRead ==
  /\ Idle
  /\ \E s \in 1..MaxSkip :
       /\ getCurrentTime(video) + s <= MaxDuration + MaxSkip
       /\ probe' = [Called("skipForward.read", s) EXCEPT !.local = getCurrentTime(video)]
  /\ UNCHANGED video
  /\ UNCHANGED rest

\* skipForward from its first await on: the seek
SkipForwardSeek ==
  /\ probe.op = "skipForward.read"
  /\ video' = seekToTime(video, skipTarget(probe.local, probe.arg))
  /\ probe' = [probe EXCEPT !.op = "skipForward"]
  /\ UNCHANGED rest

IsVideoPlaying ==
  /\ Idle
  /\ probe' = [probe EXCEPT !.playing = IF isVideoPlaying(video) THEN "true" ELSE "false"]
  /\ UNCHANGED video
  /\ UNCHANGED rest

GetCurrentTime ==
  /\ Idle
  /\ probe' = [probe EXCEPT !.time = getCurrentTime(video)]
  /\ UNCHANGED video
  /\ UNCHANGED rest

\* a second of playback
Tick ==
  /\ probe.playing = "unasked" /\ probe.time = -1
  /\ isVideoPlaying(video)
  /\ video' = [video EXCEPT !.currentTime = @ + 1]
  /\ probe' = [probe EXCEPT !.quiet = FALSE]
  /\ UNCHANGED rest

\* the media buffers, stalls, or is replaced by one not loaded yet; a
\* position set before the length was known is clamped once it is known
ReadyStateChange ==
  /\ probe.playing = "unasked" /\ probe.time = -1
  /\ \E r \in ReadyStates \ {video.readyState} :
       video' = [video EXCEPT !.readyState = r,
                              !.currentTime = IF @ > video.duration THEN video.duration ELSE @]
  /\ probe' = [probe EXCEPT !.quiet = FALSE]
  /\ UNCHANGED rest

VideoNext ==
  \/ PlayVideo
  \/ PauseVideo
  \/ SeekToTime
  \/ SkipForwardRead
  \/ SkipForwardSeek
  \/ IsVideoPlaying
  \/ GetCurrentTime
  \/ Tick
  \/ ReadyStateChange

VideoSpec == VideoInit /\ [][VideoNext]_vars

(***************************************************************************)
(* A run of the encryption utility: the operator answers its two           *)
(* questions.                                                              *)
(***************************************************************************)
\* code units of the lines an operator enters
CliUnits == {97, 233, 8364, 55357, 56832}

\* the lines readline hands to the callbacks: stdin is decoded as UTF-8, so
\* no line has an unpaired surrogate
CliLines == {l \in {Str(u) : u \in SeqsUpTo(CliUnits, MaxTextLen)} : IsWellFormed(l)}

CliInit ==
  /\ text = DefaultText /\ password = DefaultKey
  /\ draws = 0
  /\ envelopes = <<>>
  /\ observed = NoCall
  /\ file = InitialConfig
  /\ env = Unset
  /\ loaded = NoLoad
  /\ calls = <<>>
  /\ cli = CliStart
  /\ ads = NoAds
  /\ setup = NoSetup
  /\ shots = NoShots
  /\ video = NoVideo
  /\ probe = NoProbe

\* the operator answers 'Enter password to encrypt: '
AnswerPassword ==
  /\ cli.stage = "password"
  /\ \E l \in CliLines : cli' = OnPassword(cli, l)
  /\ UNCHANGED <<text, password, draws, envelopes, observed, file, env, loaded>>
  /\ UNCHANGED <<calls, video, probe, ads, setup, shots>>

\* the operator answers 'Enter encryption key ...: '
AnswerKey ==
  /\ cli.stage = "key"
  /\ \E l \in CliLines : cli' = OnKey(cli, l)
  /\ UNCHANGED <<text, password, draws, envelopes, observed, file, env, loaded>>
  /\ UNCHANGED <<calls, video, probe, ads, setup, shots>>

CliNext ==
  \/ AnswerPassword
  \/ AnswerKey

CliSpec == CliInit /\ [][CliNext]_vars

(***************************************************************************)
(* A skipAds call on a page that plays up to MaxPreroll ads before the     *)
(* video.  Every await of the call settles: waitFor has a timeout of 10 s, *)
(* click ends with the action or with the test.                            *)
(***************************************************************************)
MaxPreroll == 6

others == <<text, password, draws, envelopes, observed, file, env, loaded, calls, cli,
            video, probe>>

SkipAdsInit ==
  /\ text = DefaultText /\ password = DefaultKey
  /\ draws = 0
  /\ envelopes = <<>>
  /\ observed = NoCall
  /\ file = InitialConfig
  /\ env = Unset
  /\ loaded = NoLoad
  /\ calls = <<>>
  /\ cli = CliStart
  /\ video = NoVideo
  /\ probe = NoProbe
  /\ \E q \in SeqsUpTo(BOOLEAN, MaxPreroll) : ads = [NoAds EXCEPT !.queue = q]
  /\ setup = NoSetup
  /\ shots = NoShots

\* the test calls youtubePage.skipAds()
CallSkipAds ==
  /\ ads.pc = "idle"
  /\ ads' = skipAds(ads)
  /\ UNCHANGED <<others, setup, shots>>

\* the skip button of the ad that plays becomes visible within 10 s
WaitForVisible ==
  /\ ads.pc = "waitFor"
  /\ ads.queue # <<>> /\ Head(ads.queue)
  /\ ads' = WaitForSettled(ads, TRUE)
  /\ UNCHANGED <<others, setup, shots>>

\* no skip button becomes visible within 10 s: no ad plays, the ad has no
\* skip button, or the button comes too late
WaitForTimeout ==
  /\ ads.pc = "waitFor"
  /\ ads' = WaitForSettled(ads, FALSE)
  /\ UNCHANGED <<others, setup, shots>>

\* the click lands and the ad is skipped
ClickDone ==
  /\ ads.pc = "click"
  /\ ads.queue # <<>> /\ Head(ads.queue)
  /\ ads' = ClickSettled([ads EXCEPT !.queue = Tail(@)], TRUE)
  /\ UNCHANGED <<others, setup, shots>>

\* the click is rejected: the button is gone, covered, or the page closed
ClickFails ==
  /\ ads.pc = "click"
  /\ ads' = ClickSettled(ads, FALSE)
  /\ UNCHANGED <<others, setup, shots>>

\* the ad that plays ends by itself
AdEnds ==
  /\ ads.pc \in {"waitFor", "click"}
  /\ ads.queue # <<>>
  /\ ads' = [ads EXCEPT !.queue = Tail(@)]
  /\ UNCHANGED <<others, setup, shots>>

SkipAdsNext ==
  \/ CallSkipAds
  \/ WaitForVisible
  \/ WaitForTimeout
  \/ ClickDone
  \/ ClickFails
  \/ AdEnds

SkipAdsSpec ==
  /\ SkipAdsInit
  /\ [][SkipAdsNext]_vars
  /\ WF_vars(WaitForVisible \/ WaitForTimeout)
  /\ WF_vars(ClickDone \/ ClickFails)

(***************************************************************************)
(* Runs of the authentication setup: the first run and its retries, each   *)
(* in a fresh browser context, all saving to the same file.                *)
(***************************************************************************)
\* a first run and the two retries of the CI configuration
MaxRuns == 3

SetupInit ==
  /\ text = DefaultText /\ password = DefaultKey
  /\ draws = 0
  /\ envelopes = <<>>
  /\ observed = NoCall
  /\ file = InitialConfig
  /\ env = Unset
  /\ loaded = NoLoad
  /\ calls = <<>>
  /\ cli = CliStart
  /\ video = NoVideo
  /\ probe = NoProbe
  /\ ads = NoAds
  /\ setup = NoSetup
  /\ shots = NoShots

\* the setup test is started, for the first time or again
RunSetup ==
  /\ setup.pc \in {"idle", "passed", "failed"}
  /\ setup.run < MaxRuns
  /\ \E d \in BOOLEAN : setup' = StartRun(setup, d)
  /\ UNCHANGED <<others, ads, shots>>

Navigate ==
  /\ setup.pc = "navigate"
  /\ \E ok \in BOOLEAN : setup' = Navigated(setup, ok)
  /\ UNCHANGED <<others, ads, shots>>

AcceptCookies ==
  /\ setup.pc = "acceptCookies"
  /\ \E clicked \in BOOLEAN : setup' = CookiesHandled(setup, clicked)
  /\ UNCHANGED <<others, ads, shots>>

ClickSignIn ==
  /\ setup.pc = "clickSignIn"
  /\ \E ok \in BOOLEAN : setup' = SignInClicked(setup, ok)
  /\ UNCHANGED <<others, ads, shots>>

PerformLogin ==
  /\ setup.pc = "performLogin"
  /\ \E ok \in BOOLEAN, accepted \in BOOLEAN :
       /\ accepted => ok
       /\ setup' = LoginPerformed(setup, ok, accepted)
  /\ UNCHANGED <<others, ads, shots>>

\* the browser is back on the base URL in time, or the wait times out
WaitForURL ==
  /\ setup.pc = "waitForURL"
  /\ \E ok \in BOOLEAN : setup' = UrlReached(setup, ok)
  /\ UNCHANGED <<others, ads, shots>>

\* the avatar is rendered for a signed-in session only, and not always in
\* time
IsSignedIn ==
  /\ setup.pc = "isSignedIn"
  /\ \E visible \in BOOLEAN :
       /\ visible => setup.session
       /\ setup' = SignedInChecked(setup, visible)
  /\ UNCHANGED <<others, ads, shots>>

StorageState ==
  /\ setup.pc = "storageState"
  /\ \E ok \in BOOLEAN : setup' = StateSaved(setup, ok)
  /\ UNCHANGED <<others, ads, shots>>

SetupNext ==
  \/ RunSetup
  \/ Navigate
  \/ AcceptCookies
  \/ ClickSignIn
  \/ PerformLogin
  \/ WaitForURL
  \/ IsSignedIn
  \/ StorageState

SetupSpec == SetupInit /\ [][SetupNext]_vars

(***************************************************************************)
(* Screenshots of the suite: tests generate a filename and take their      *)
(* screenshot under it while the clock runs on.                            *)
(***************************************************************************)
MaxShots == 3
MaxClock == 2000

\* how far the clock runs on between two steps, in milliseconds
ClockSteps == {250, 1000}

ShotInit ==
  /\ text = DefaultText /\ password = DefaultKey
  /\ draws = 0
  /\ envelopes = <<>>
  /\ observed = NoCall
  /\ file = InitialConfig
  /\ env = Unset
  /\ loaded = NoLoad
  /\ calls = <<>>
  /\ cli = CliStart
  /\ video = NoVideo
  /\ probe = NoProbe
  /\ ads = NoAds
  /\ setup = NoSetup
  /\ shots = NoShots

\* time passes
ClockTick ==
  /\ \E d \in ClockSteps :
       /\ shots.now + d <= MaxClock
       /\ shots' = [shots EXCEPT !.now = @ + d]
  /\ UNCHANGED <<others, ads, setup>>

\* a test calls screenshotUtils.generateScreenshotFilename()
GenerateFilename ==
  /\ Len(shots.names) < MaxShots
  /\ shots' = [shots EXCEPT !.names = Append(@, generateScreenshotFilename(shots.now))]
  /\ UNCHANGED <<others, ads, setup>>

\* the test calls screenshotUtils.takeScreenshot(page, filename) with the
\* filename it was given
TakeScreenshot ==
  /\ shots.taken < Len(shots.names)
  /\ shots' = takeScreenshot(shots, shots.names[shots.taken + 1], shots.taken + 1)
  /\ UNCHANGED <<others, ads, setup>>

ShotNext ==
  \/ ClockTick
  \/ GenerateFilename
  \/ TakeScreenshot

ShotSpec == ShotInit /\ [][ShotNext]_vars

(***************************************************************************)
(* Properties of encrypt and decrypt, checked under CodecSpec.             *)
(***************************************************************************)
\* the last call was decrypt(encrypt(text, password), password)
IntactSameKey == observed.op = "intact" /\ observed.password = password

\* C1 as stated: for every plaintext p and passphrase k,
\* decrypt(encrypt(p, k), k) returns exactly p.
C1_RoundTrip == IntactSameKey => observed.result = Return(text)

\* C1 amended: for every plaintext p without unpaired surrogates (the empty
\* string and non-ASCII text included) and every passphrase k,
\* decrypt(encrypt(p, k), k) returns exactly p.
C1_RoundTripWellFormed ==
  (IntactSameKey /\ IsWellFormed(text)) => observed.result = Return(text)

C1_Witness ==
  /\ IntactSameKey
  /\ IsWellFormed(text)
  /\ \E i \in DOMAIN text : text[i][1] > 127
  /\ observed.result = Return(text)

\* C6: changing one byte of the tag region (bytes 80-96) or of the
\* ciphertext region (bytes 96-end) of an envelope makes decrypt under the
\* same passphrase throw the authentication error; no plaintext is returned.
C6_TamperDetected ==
  (observed.op = "tampered" /\ observed.pos > SALT_LENGTH + IV_LENGTH)
    => observed.result = Throw(AuthFailedMessage)

C6_Witness ==
  /\ observed.op = "tampered"
  /\ observed.pos > EnvelopeLength
  /\ observed.data # envelopes[observed.src]
  /\ observed.result = Throw(AuthFailedMessage)

\* the HMAC key block a passphrase stands for
KeyBlock(k) == HmacKey(Utf8Encode(Units(k)))

\* C7 as stated: for passphrases k1 # k2, decrypt(encrypt(p, k1), k2) throws
\* the authentication error.
C7_WrongKey ==
  (observed.op = "intact" /\ observed.password # password)
    => observed.result = Throw(AuthFailedMessage)

\* C7 amended: for passphrases k1, k2 with different HMAC key blocks,
\* decrypt(encrypt(p, k1), k2) throws the authentication error and returns
\* no string.
C7_WrongKeyBlock ==
  (observed.op = "intact" /\ KeyBlock(observed.password) # KeyBlock(password))
    => observed.result = Throw(AuthFailedMessage)

C7_Witness ==
  /\ observed.op = "intact"
  /\ KeyBlock(observed.password) # KeyBlock(password)
  /\ observed.result = Throw(AuthFailedMessage)

\* a character that is neither of the base64 alphabet nor the pad
HasIllegalChar(t) == \E i \in DOMAIN t : ~IsB64Digit(t[i]) /\ t[i] # PadChar

\* C8 as stated: decrypt throws an error other than the authentication error
\* whenever its input is not base64 text or decodes to fewer than 96 bytes.
C8_MalformedEnvelope ==
  (/\ observed.op # "none"
   /\ \/ HasIllegalChar(observed.data)
      \/ Len(Base64Decode(observed.data)) < EnvelopeLength)
    => (~observed.result.ok /\ observed.result.message # AuthFailedMessage)

SaltOf(e) == Subarray(Base64Decode(e), 0, SALT_LENGTH)
IvOf(e) == Subarray(Base64Decode(e), SALT_LENGTH, SALT_LENGTH + IV_LENGTH)

\* two encrypt calls with the same inputs: different salts, ivs and texts,
\* and both texts decrypt to the plaintext
FreshPair(i, j) ==
  /\ SaltOf(envelopes[i]) # SaltOf(envelopes[j])
  /\ IvOf(envelopes[i]) # IvOf(envelopes[j])
  /\ envelopes[i] # envelopes[j]
  /\ decrypt(envelopes[i], password) = Return(text)
  /\ decrypt(envelopes[j], password) = Return(text)

Pw(doc, i) == doc.entries[i][2].password

\* entry i of the stored document has a credentials.password that starts
\* with 'encrypted:'
StoredMarked(i) ==
  LET e == file.entries[i][2]
  IN  /\ e.object /\ e.credentials
      /\ e.password.t = "string"
      /\ Len(e.password.s) >= 10
      /\ SubSeq(e.password.s, 1, 10) = Str(<<101, 110, 99, 114, 121, 112, 116, 101, 100, 58>>)

\* the stored password of entry i is 'encrypted:' + an envelope of the secret
StoredEnvelope(i) ==
  /\ file.entries[i][2].credentials
  /\ \E j \in DOMAIN envelopes : Pw(file, i) = JStr(Marker \o envelopes[j])

\* what decrypt makes of the stored password of entry i under the key
Decoded(i) == decrypt(SubSeq(Pw(file, i).s, 11, Len(Pw(file, i).s)), env.value)

KeyUsable == env.set /\ env.value # <<>>

\* C2 as stated: a load with ENCRYPTION_KEY = k of a document with an entry
\* whose password is 'encrypted:' + encrypt(p, k) returns a document with p
\* as that entry's password.
C2_DecryptOnLoad ==
  \A i \in Entries :
    (loaded.done /\ StoredEnvelope(i) /\ env = SetTo(password))
      => (loaded.ok /\ Pw(loaded.value, i) = JStr(text))

\* C2 amended: for p without unpaired surrogates and non-empty k, every
\* document such a load returns has p as that entry's password, and the load
\* returns a document when every marked password is such an envelope.
C2_DecryptOnLoadAmended ==
  \A i \in Entries :
    (/\ loaded.done /\ StoredEnvelope(i) /\ env = SetTo(password)
     /\ password # <<>> /\ IsWellFormed(text))
      => /\ loaded.ok => Pw(loaded.value, i) = JStr(text)
         /\ (\A j \in Entries : StoredMarked(j) => StoredEnvelope(j)) => loaded.ok

C2_Witness ==
  /\ loaded.ok
  /\ env = SetTo(password)
  /\ text # <<>>
  /\ \E i \in Entries : StoredEnvelope(i) /\ Pw(loaded.value, i) = JStr(text)

\* C3: a password that does not start with 'encrypted:' is returned
\* unchanged, key or no key; a document without marked password loads
\* without key and without any call of decrypt.
C3_PlaintextPassthrough ==
  loaded.done =>
    /\ loaded.ok => \A i \in Entries : ~StoredMarked(i) => Pw(loaded.value, i) = Pw(file, i)
    /\ (\A i \in Entries : ~StoredMarked(i)) => (loaded.ok /\ loaded.decrypts = <<>>)

C3_Witness ==
  /\ loaded.ok
  /\ \E i, j \in Entries :
       /\ StoredMarked(j)
       /\ ~StoredMarked(i)
       /\ Pw(file, i).t = "string" /\ Pw(file, i).s # <<>>
       /\ Pw(loaded.value, i) = Pw(file, i)

\* C4: without ENCRYPTION_KEY a load of a document with a marked password
\* throws the missing-key error, whose message names ENCRYPTION_KEY, and
\* decrypt is not called.
C4_MissingKeyFastFail ==
  (loaded.done /\ ~env.set /\ \E i \in Entries : StoredMarked(i))
    => /\ ~loaded.ok
       /\ loaded.message = MissingKeyMessage
       /\ \E n \in DOMAIN loaded.message : loaded.message[n] = "ENCRYPTION_KEY"
       /\ loaded.decrypts = <<>>

C4_Witness ==
  /\ loaded.done /\ ~loaded.ok
  /\ ~env.set
  /\ \E i \in Entries : StoredMarked(i)

\* C5: if decoding fails for a marked entry the load throws and returns no
\* document; in a returned document every marked password is replaced by
\* its decrypted plaintext.
C5_NoPartialDecryption ==
  loaded.done =>
    /\ (KeyUsable /\ \E i \in Entries : StoredMarked(i) /\ ~Decoded(i).ok)
         => (~loaded.ok /\ loaded.value = NoDocument)
    /\ loaded.ok =>
         \A i \in Entries : StoredMarked(i) =>
           /\ Decoded(i).ok
           /\ Pw(loaded.value, i) = JStr(Decoded(i).value)
           /\ Pw(loaded.value, i) # Pw(file, i)

C5_Witness ==
  /\ loaded.done /\ ~loaded.ok /\ loaded.value = NoDocument
  /\ KeyUsable
  /\ StoredMarked(1) /\ Decoded(1).ok
  /\ StoredMarked(2) /\ ~Decoded(2).ok

\* the first entry whose marked password decrypt rejects
FirstFailing ==
  CHOOSE i \in Entries :
    /\ StoredMarked(i) /\ ~Decoded(i).ok
    /\ \A j \in Entries : (StoredMarked(j) /\ ~Decoded(j).ok) => i <= j

\* C10: with ENCRYPTION_KEY set, a load in which decrypt fails for a marked
\* entry throws an error that names the entry's key and carries the message
\* of the decrypt error.
C10_DecryptionFailed ==
  (loaded.done /\ KeyUsable /\ \E i \in Entries : StoredMarked(i) /\ ~Decoded(i).ok)
    => LET inner == Decoded(FirstFailing).message
           n == Len(loaded.message)
       IN  /\ ~loaded.ok
           /\ loaded.message # MissingKeyMessage
           /\ \E k \in 1..n : loaded.message[k] = file.entries[FirstFailing][1]
           /\ n > Len(inner)
           /\ SubSeq(loaded.message, n - Len(inner) + 1, n) = inner

C10_Witness ==
  /\ loaded.done /\ ~loaded.ok
  /\ KeyUsable
  /\ StoredMarked(2) /\ ~Decoded(2).ok
  /\ loaded.message[2] = "UAT"
  /\ loaded.message[Len(loaded.message)] = InvalidIvMessage[1]

\* C13: a document readJsonFile returns equals the stored one in every
\* position but the credentials.password of the entries whose stored
\* password was marked: same top-level keys in the same order, same baseURL,
\* username and additional fields, same non-object top-level values.
C13_Frame ==
  (loaded.done /\ loaded.ok) =>
    /\ loaded.value.malformed = file.malformed
    /\ loaded.value.object = file.object
    /\ Len(loaded.value.entries) = Len(file.entries)
    /\ \A i \in Entries :
         /\ loaded.value.entries[i][1] = file.entries[i][1]
         /\ IF StoredMarked(i)
            THEN [loaded.value.entries[i][2] EXCEPT !.password = Pw(file, i)]
                   = file.entries[i][2]
            ELSE loaded.value.entries[i][2] = file.entries[i][2]

C13_Witness ==
  /\ loaded.done /\ loaded.ok
  /\ \E i, j \in Entries :
       /\ StoredMarked(i)
       /\ Pw(loaded.value, i) # Pw(file, i)
       /\ loaded.value.entries[i][2].timeout = JNum(30)
       /\ ~file.entries[j][2].object
       /\ loaded.value.entries[j] = file.entries[j]

\* the keys of the marked entries from the first up to entry n, in order
RECURSIVE MarkedUpTo(_)
MarkedUpTo(n) ==
  IF n = 0 THEN <<>>
  ELSE MarkedUpTo(n - 1) \o (IF StoredMarked(n) THEN <<file.entries[n][1]>> ELSE <<>>)

\* C20: one readJsonFile call hands each marked entry to decrypt at most
\* once and in top-level key order; after the first entry whose decrypt
\* fails no later entry is decoded and none is retried, and the error names
\* that entry.
C20_FailStop ==
  (loaded.done /\ KeyUsable) =>
    IF \E i \in Entries : StoredMarked(i) /\ ~Decoded(i).ok
    THEN /\ loaded.decrypts = MarkedUpTo(FirstFailing)
         /\ ~loaded.ok
         /\ loaded.message[2] = file.entries[FirstFailing][1]
    ELSE loaded.decrypts = MarkedUpTo(Len(file.entries))

\* the first entry fails and the second, marked as well, is not decoded
C20_Witness ==
  /\ loaded.done /\ ~loaded.ok
  /\ KeyUsable
  /\ StoredMarked(1) /\ ~Decoded(1).ok
  /\ StoredMarked(2)
  /\ loaded.decrypts = <<"QA">>

\* the text after the first 10 characters of the stored password of entry i
AfterPrefix(i) == SubSeq(Pw(file, i).s, 11, Len(Pw(file, i).s))

\* entry i is reached by the load: no marked entry before it fails to decrypt
Reached(i) == \A j \in Entries : (j < i /\ StoredMarked(j)) => Decoded(j).ok

\* a stored password that resembles a marked one: it contains 'encrypted:'
\* in some letter case at some position, but not exactly at position 0
NearMiss(i) ==
  LET e == file.entries[i][2]
      lower(u) == IF u >= 65 /\ u <= 90 THEN u + 32 ELSE u
      low == [k \in DOMAIN e.password.s |-> lower(e.password.s[k][1])]
  IN  /\ e.object /\ e.credentials /\ e.password.t = "string"
      /\ ~StoredMarked(i)
      /\ \E k \in 0..(Len(low) - 10) :
           SubSeq(low, k + 1, k + 10) = <<101, 110, 99, 114, 121, 112, 116, 101, 100, 58>>

C22_EmptyKeyIsAbsent ==
  loaded.done =>
    /\ (env = SetTo(<<>>) /\ \E i \in Entries : StoredMarked(i))
         => /\ ~loaded.ok
            /\ loaded.value = NoDocument
            /\ loaded.message = MissingKeyMessage
            /\ loaded.decrypts = <<>>
            /\ loaded.args = <<>>
    /\ (password = <<>> /\ \E i \in Entries : StoredEnvelope(i)) => ~loaded.ok

\* the variable is set to the very passphrase the stored envelope was made
\* with, the empty one, and the load throws the missing-key error
C22_Witness ==
  /\ loaded.done /\ ~loaded.ok
  /\ password = <<>>
  /\ env = SetTo(password)
  /\ loaded.message = MissingKeyMessage
  /\ \E i \in Entries : StoredEnvelope(i) /\ decrypt(AfterPrefix(i), <<>>) = Return(text)

(***************************************************************************)
(* Properties of repeated loads, checked under SuiteSpec.                  *)
(***************************************************************************)
\* the step is a readJsonFile call
IsCall == calls' # calls

\* the stored document has an entry with a marked password
SomeMarked == \E i \in Entries : StoredMarked(i)

\* C12: a call of readJsonFile on a malformed document throws the parse
\* error, which is neither the missing-key error nor a DecryptionFailed
\* error, whatever ENCRYPTION_KEY is and without a decrypt call.
C12_ParseError ==
  [][(IsCall /\ file.malformed) =>
       /\ ~loaded'.ok
       /\ loaded'.message = <<"Unexpected token in JSON">>
       /\ loaded'.message # MissingKeyMessage
       /\ loaded'.message[1] # "Failed to decrypt password for "
       /\ loaded'.decrypts = <<>>]_vars

\* a malformed document with a marked password was loaded without key
C12_Witness ==
  /\ loaded.done /\ ~loaded.ok
  /\ file.malformed
  /\ SomeMarked
  /\ ~env.set
  /\ loaded.message = ParseErrorMessage

\* what a call on the stored document and the environment has to return
Expected ==
  IF file.malformed THEN ~loaded'.ok /\ loaded'.message = ParseErrorMessage
  ELSE IF SomeMarked /\ ~KeyUsable THEN ~loaded'.ok /\ loaded'.message = MissingKeyMessage
  ELSE IF \E i \in Entries : StoredMarked(i) /\ ~Decoded(i).ok THEN ~loaded'.ok
  ELSE /\ loaded'.ok
       /\ \A i \in Entries :
            Pw(loaded'.value, i) = IF StoredMarked(i) THEN JStr(Decoded(i).value) ELSE Pw(file, i)

\* C14: a readJsonFile call, successful or failed, leaves the stored
\* document as it is, marked passwords included, and its outcome is that of
\* reading the stored document anew, never a document an earlier call
\* decrypted.
C14_NoWriteBack ==
  [][IsCall => (file' = file /\ Expected)]_vars

\* a load that returned the decrypted document, then a load that failed
\* because the key was gone, and the envelope is still stored
C14_Witness ==
  /\ calls = <<TRUE, FALSE>>
  /\ loaded.message = MissingKeyMessage
  /\ \E i \in Entries : StoredEnvelope(i)

(***************************************************************************)
(* Further properties of decrypt, checked under CodecSpec.                 *)
(***************************************************************************)
\* passphrases other than the one the envelope was made with
WrongKeys == {k \in {Str(<<98>>), <<>>} : KeyBlock(k) # KeyBlock(password)}

\* the call observed was made on a corrupted envelope of at least 96 bytes
\* and failed
CorruptedFailed ==
  /\ observed.op \in {"tampered", "truncated", "junk"}
  /\ Len(Base64Decode(observed.data)) >= EnvelopeLength
  /\ ~observed.result.ok

\* C11: a decrypt call that fails on a corrupted envelope of at least 96
\* bytes and a decrypt call that fails on the intact envelope under a wrong
\* passphrase end with the same error; the outcomes are equal.
C11_OpaqueAuthFailure ==
  CorruptedFailed =>
    \A k \in WrongKeys :
      LET w == decrypt(envelopes[observed.src], k)
      IN  ~w.ok /\ w = observed.result

C11_Witness ==
  /\ CorruptedFailed
  /\ observed.op = "truncated"
  /\ WrongKeys # {}
  /\ \A k \in WrongKeys : decrypt(envelopes[observed.src], k) = observed.result

\* Buffer.byteLength(s, 'utf8'), counted unit by unit from position i on
RECURSIVE Utf8ByteLength(_, _)
Utf8ByteLength(s, i) ==
  IF i > Len(s) THEN 0
  ELSE LET u == s[i][1]
       IN  IF u < 128 THEN 1 + Utf8ByteLength(s, i + 1)
           ELSE IF u < 2048 THEN 2 + Utf8ByteLength(s, i + 1)
           ELSE IF /\ u >= 55296 /\ u <= 56319 /\ i < Len(s)
                   /\ s[i + 1][1] >= 56320 /\ s[i + 1][1] <= 57343
             THEN 4 + Utf8ByteLength(s, i + 2)
           ELSE 3 + Utf8ByteLength(s, i + 1)

\* envelope i decodes to salt || iv || tag || ciphertext at the offsets
\* 0-64, 64-80, 80-96, 96-end
LaidOut(i) ==
  LET data == Base64Decode(envelopes[i])
      salt == [n \in 1..64 |-> data[n]]
      iv == [n \in 1..16 |-> data[64 + n]]
      tag == [n \in 1..16 |-> data[80 + n]]
      ciphertext == [n \in 1..(Len(data) - 96) |-> data[96 + n]]
      key == pbkdf2Sync(password, salt, ITERATIONS, KEY_LENGTH, DIGEST)
  IN  /\ Len(data) = 96 + Utf8ByteLength(text, 1)
      /\ Len(data) >= 96
      /\ salt = randomBytes(64, 2 * i - 1)
      /\ iv = randomBytes(16, 2 * i)
      /\ ciphertext = CtrXor(BufferOf(Utf8Encode(Units(text))), Keystream(ALGORITHM, key, iv))
      /\ tag = GcmTag(ALGORITHM, key, iv, ciphertext)

\* C16: every text encrypt(p, k) returns base64-decodes to salt (64 bytes)
\* || iv (16) || tag (16) || ciphertext, 96 bytes plus the UTF-8 length of
\* p, and decrypt, which reads the four parts at these offsets, accepts it.
C16_EnvelopeLayout ==
  observed = NoCall =>
    \A i \in DOMAIN envelopes :
      /\ LaidOut(i)
      /\ decrypt(envelopes[i], password).ok

C16_Witness ==
  /\ observed = NoCall
  /\ Len(envelopes) = 2
  /\ Utf8ByteLength(text, 1) = 4
  /\ Len(Base64Decode(envelopes[2])) = 100
  /\ LaidOut(2)

(***************************************************************************)
(* Properties of the video helper, checked under VideoSpec.                *)
(***************************************************************************)
\* isVideoPlaying was called, and the last call before it was op
AskedAfter(op) == probe.op = op /\ probe.playing # "unasked"

\* isVideoPlaying answers true exactly for a video that is not paused, has
\* not ended and has readyState > 2
ExactAnswer ==
  probe.playing # "unasked" =>
    (probe.playing = "true" <=>
       (/\ ~video.paused
        /\ ~(video.readyState >= 1 /\ video.currentTime = video.duration)
        /\ video.readyState > 2))

C18_PauseWitness ==
  /\ AskedAfter("pauseVideo")
  /\ isVideoPlaying(probe.pre)
  /\ probe.playing = "false"

\* getCurrentTime was called after a skipForward on a paused video
SkippedPaused ==
  /\ probe.op = "skipForward" /\ probe.time # -1
  /\ probe.pre.paused
  /\ probe.arg > 0

WithinMedia ==
  /\ probe.pre.readyState >= 1
  /\ probe.quiet
  /\ probe.pre.currentTime + probe.arg <= probe.pre.duration

Contains(hay, needle) ==
  \E i \in 1..(Len(hay) - Len(needle) + 1) :
    SubSeq(hay, i, i + Len(needle) - 1) = needle

\* the utility has encrypted the operator's password
Encrypted == cli.stage = "closed" /\ cli.exit = 0

\* C15 as stated: no line the utility writes contains the passphrase the
\* operator entered.
C15_PassphraseNotPrinted ==
  Encrypted =>
    \A n \in DOMAIN cli.output :
      \A m \in DOMAIN cli.output[n].pieces :
        ~Contains(cli.output[n].pieces[m].val, cli.encryptionKey)

\* the values printed as "password": "..."
PrintedPasswords ==
  {cli.output[n].pieces[1].val : n \in {m \in DOMAIN cli.output :
     cli.output[m].pieces[1].lit = "\"password\": \""}}

\* C17: for a non-empty secret p and a non-empty passphrase k entered at the
\* utility, the password value it prints is 'encrypted:' followed by an
\* envelope that the helper's decrypt takes back to p under k, the very
\* envelope the helper's encrypt makes of p and k with the same salt and iv.
C17_CliCompatible ==
  (cli.stage = "closed" /\ cli.password # <<>> /\ cli.encryptionKey # <<>>) =>
    /\ Cardinality(PrintedPasswords) = 1
    /\ \A v \in PrintedPasswords :
         /\ Len(v) > 10
         /\ SubSeq(v, 1, 10) = Str(<<101, 110, 99, 114, 121, 112, 116, 101, 100, 58>>)
         /\ decrypt(SubSeq(v, 11, Len(v)), cli.encryptionKey) = Return(cli.password)
         /\ SubSeq(v, 11, Len(v)) = encrypt(cli.password, cli.encryptionKey, 0)

C17_Witness ==
  /\ Encrypted
  /\ \E i \in DOMAIN cli.password : cli.password[i][1] > 127
  /\ \E v \in PrintedPasswords :
       decrypt(SubSeq(v, 11, Len(v)), cli.encryptionKey) = Return(cli.password)

\* the utility has ended after an empty answer to one of its questions
EmptyAnswer ==
  cli.stage = "closed" /\ (cli.password = <<>> \/ cli.encryptionKey = <<>>)

\* C23: when the secret or the passphrase entered is empty the utility
\* writes an error as its last line, ends with status 1, has not called
\* encrypt, and has written no value that starts with 'encrypted:'.
C23_EmptyInputRejected ==
  EmptyAnswer =>
    /\ cli.exit = 1
    /\ cli.encrypts = 0
    /\ cli.output[Len(cli.output)] =
         LogError("\nError: Both password and encryption key are required")
    /\ PrintedPasswords = {}
    /\ \A n \in DOMAIN cli.output :
         \A m \in DOMAIN cli.output[n].pieces :
           ~Contains(cli.output[n].pieces[m].val, Marker)

\* an empty secret with a passphrase, which is only seen to be empty after
\* the second question has been asked and answered
C23_Witness ==
  /\ EmptyAnswer
  /\ cli.password = <<>>
  /\ cli.encryptionKey # <<>>
  /\ cli.output[Len(cli.output) - 1] = KeyPrompt
  /\ cli.exit = 1

(***************************************************************************)
(* Properties of skipAds, checked under SkipAdsSpec.                       *)
(***************************************************************************)
\* what holds at every moment of a skipAds call
SkipAdsSafe ==
  /\ ads.clicks <= maxAds
  /\ ads.skipped <= ads.clicks
  /\ ads.clicks = ads.adCount
  /\ ~ads.late
  /\ ads.failed => ads.pc = "returned"
  /\ ads.pc = "returned" => (ads.failed \/ ads.adCount = maxAds)
  /\ ads.pc \in {"idle", "waitFor", "click", "returned"}

\* C24: skipAds clicks the skip button at most 5 times, does not wait for
\* the button or click it again once the button failed to become visible or
\* a click failed, raises no error, and every call returns.
C24_SkipAdsTerminates ==
  /\ []SkipAdsSafe
  /\ (ads.pc # "idle") ~> (ads.pc = "returned")

\* five ads were skipped and the call returned with the limit warning while
\* the page still has an ad to play
C24_Witness ==
  /\ ads.pc = "returned"
  /\ ads.skipped = maxAds
  /\ ads.warned
  /\ ~ads.failed
  /\ ads.queue # <<>>

\* two ads were skipped, the third click failed, and the call returned
C24_FailedWitness ==
  /\ ads.pc = "returned"
  /\ ads.failed
  /\ ads.clicks = 3 /\ ads.skipped = 2
  /\ ads.queue # <<>>

(***************************************************************************)
(* Properties of the authentication setup, checked under SetupSpec.        *)
(***************************************************************************)
\* the run under way has failed in one of the steps before the save
FailedBeforeSave ==
  setup.pc = "failed"
    /\ setup.error \in {"navigate", "clickSignIn", "performLogin", "waitForURL", "expect"}

\* C25: the storage-state file is written only by a run in which
\* isSignedIn has returned true before: a step that changes the file is the
\* save of the run under way after a true answer, a file written by the run
\* under way implies that answer, and a run that failed in navigation,
\* login, the redirect wait or the sign-in check has not written the file.
C25_SavedOnlyWhenSignedIn ==
  /\ [](/\ (setup.authFile.exists /\ setup.authFile.run = setup.run)
             => (setup.isSignedIn = "true" /\ setup.pc = "passed")
        /\ FailedBeforeSave => setup.authFile.run # setup.run
        /\ setup.authFile.run <= setup.run)
  /\ [][setup'.authFile # setup.authFile
         => /\ setup.pc = "storageState"
            /\ setup.isSignedIn = "true"
            /\ setup'.run = setup.run
            /\ setup'.authFile.run = setup.run]_vars

\* the first run saved the file; the retry finds no avatar, fails at the
\* expectation and leaves the file of the first run as it is
C25_Witness ==
  /\ setup.run = 2
  /\ setup.pc = "failed" /\ setup.error = "expect"
  /\ setup.isSignedIn = "false"
  /\ setup.session
  /\ setup.authFile.exists /\ setup.authFile.run = 1

(***************************************************************************)
(* Properties of the screenshot filenames, checked under ShotSpec.         *)
(***************************************************************************)
\* C26 as stated: any two calls of generateScreenshotFilename return
\* different filenames, and the file of every screenshot taken still holds
\* the picture of its own call.
C26_UniqueFilenames ==
  /\ \A i, j \in DOMAIN shots.names : i # j => shots.names[i] # shots.names[j]
  /\ \A n \in 1..shots.taken : <<shots.names[n], n>> \in shots.files

\* two screenshots taken, one file: the second replaced the first
C26_Overwritten ==
  /\ shots.taken = 2
  /\ shots.now = 250
  /\ Cardinality(shots.files) = 1
  /\ screenshotExists(shots, shots.names[1])
  /\ <<shots.names[1], 2>> \in shots.files

====
